---- MODULE Spec2Model ----
(***************************************************************************)
(* i3X Explorer: the live-feed pipeline.                                    *)
(*                                                                          *)
(*   SSESubscription / PollingSubscription   src/src/api/subscription.ts    *)
(*   sse-connect / sse-disconnect (main)     src/electron/main.ts           *)
(*   SubscriptionPanel handlers              src/src/components/            *)
(*                                             subscriptions/               *)
(*                                             SubscriptionPanel.tsx        *)
(*   subscriptions store (setStreaming)      src/unnamed/part_001           *)
(*                                                                          *)
(* JavaScript runs one task at a time: every action below is one task (a    *)
(* UI handler, a timer callback, the continuation of an await, an IPC       *)
(* listener) together with the microtasks it triggers.                      *)
(*                                                                          *)
(* Specifications:                                                          *)
(*   SpecSSE    one SSESubscription object, connected once (as the panel    *)
(*              does with every object it creates) and disconnected by its  *)
(*              caller at any time; the observer obs records its history.   *)
(*   SpecPanel  the SubscriptionPanel with the transports it creates; the   *)
(*              observers pollObs and lateAct record their history.         *)
(***************************************************************************)
EXTENDS Integers, Sequences, FiniteSets, TLC

\* ---------------------------------------------------------------- bounds
\* Number of transport objects (new SSESubscription / new PollingSubscription)
\* the panel creates in one run.
MaxInst == 2
\* Number of syncFn calls of one PollingSubscription that may be outstanding.
MaxInflight == 2
\* Consecutive rejected syncFn calls the observer of a poller counts.
MaxFails == 3
\* Number of batches delivered to the store in SpecValues.
MaxBatches == 2
\* Number of clearAll calls in SpecConnect.
MaxResets == 3
\* Number of numeric updates one element receives in SpecTrend.
MaxUpdates == 62

\* ------------------------------------------------------ program constants
maxReconnectAttempts == 5
reconnectDelay == 1000

Inst == 1..MaxInst
SubIds == {"s1", "s2"}
NoSub == "null"
\* elementIds of the objects the user can subscribe to
Elements == {"e1", "e2"}
\* What one stream message carries: a JSON array with at least one item, a
\* JSON array that yields no item, text that JSON.parse rejects, or JSON
\* that is not an array (an object: `for ... of` over it throws TypeError).
Messages == {"items", "empty", "malformed", "object"}

VARIABLES
  electron,              \* isElectron(): window.electronAPI.sseConnect exists
  subscriptions,         \* store: id -> [isStreaming, monitoredItems (a
                         \* sequence of elementIds)]
  activeSubscriptionId,  \* store: selected subscription or NoSub
  usePolling,            \* panel state
  sseRef,                \* panel ref: 0 (null) or an instance
  pollingRef,            \* panel ref: 0 (null) or an instance
  nInst,                 \* transports constructed so far
  isConnected,           \* connection store
  clientInstance,        \* the client singleton exists (getClient() non-null)
  pendingConnect,        \* handleConnect awaiting the catalog client
  framing,               \* the line framing of one push stream's body
  server,                \* catalog server: id -> "none" | "live" | "deleted"
  pendingSubscribe,      \* handleSubscribe awaiting the catalog client
  pendingDelete,         \* handleDelete awaiting the catalog client
  liveValues,            \* store: elementId -> LiveValue or NoValue
  trendData,             \* store: elementId -> sequence of trend points
  dataObs,               \* observer of the Live Value Store
  sse,                   \* instance -> SSESubscription object and its chain
  poll,                  \* instance -> PollingSubscription object
  obs,                   \* observer of an SSESubscription (SpecSSE)
  pollObs,               \* observer of a PollingSubscription (SpecPanel)
  lateAct                \* observer of superseded transports (SpecPanel)

vars == <<electron, subscriptions, activeSubscriptionId, usePolling,
          sseRef, pollingRef, nInst, isConnected, server, pendingSubscribe,
          pendingDelete, liveValues, trendData, dataObs, sse, poll, obs,
          pollObs, lateAct, clientInstance, pendingConnect, framing>>

connVars == <<clientInstance, pendingConnect, framing>>

dataVars == <<liveValues, trendData, dataObs>>

appVars == <<isConnected, server, pendingSubscribe, pendingDelete>>

panelVars == <<activeSubscriptionId, usePolling, sseRef, pollingRef, nInst>>

RECURSIVE Pow2(_)
Pow2(n) == IF n <= 0 THEN 1 ELSE 2 * Pow2(n - 1)

Min(a, b) == IF a < b THEN a ELSE b

\* ------------------------------------------------------------------ store

setStreaming(subs, subscriptionId, streaming) ==
  IF subscriptionId \in DOMAIN subs
  THEN [subs EXCEPT ![subscriptionId].isStreaming = streaming]
  ELSE subs

\* --------------------------------------------------------- SSESubscription
\* Fields of the object: abortController / streamId (TRUE = non-null),
\* cleanupFns (listener cleanups held for the stream being listened to; the
\* listeners of ended streamIds can never fire again and are not counted),
\* reconnectAttempts, connected.
\* The asynchronous chain the object runs:
\*   pc     "idle" | "connecting" (awaiting fetch / sseConnect)
\*          | "open" (reading the body / listening) | "timer" (setTimeout)
\*   delay  the delay given to the pending setTimeout
\*   stream "live" while the HTTP response body is being read (by the
\*          renderer in browser mode, by the main process in IPC mode)
\*   reply  IPC: the main process has answered {ok: true} and the renderer
\*          has not yet run the continuation of `await sseConnect`
\*   nError number of onError invocations
\*   thrown an exception left connectViaIPC / startFetch / a listener / the
\*          timer callback uncaught (the statements of connectViaIPC and
\*          startFetch that can fail are inside their try blocks; the btoa
\*          call before them is given the credentials with which the client
\*          has already built the header of every request it made)

NoSSE ==
  [made |-> FALSE, sub |-> NoSub,
   abortController |-> FALSE, streamId |-> FALSE, cleanupFns |-> 0,
   reconnectAttempts |-> 0, connected |-> FALSE,
   pc |-> "idle", delay |-> 0, stream |-> "none", reply |-> FALSE,
   nError |-> 0, thrown |-> FALSE]

\* new SSESubscription(url, onData, onError, credentials)
NewSSE(sid) == [NoSSE EXCEPT !.made = TRUE, !.sub = sid]

handleDisconnect_sixth(s) ==
  IF s.reconnectAttempts <= maxReconnectAttempts
  THEN [s EXCEPT !.reconnectAttempts = @ + 1,
                 !.delay = reconnectDelay * Pow2((s.reconnectAttempts + 1) - 1),
                 !.pc = "timer"]
  ELSE [s EXCEPT !.pc = "idle", !.delay = 0, !.nError = @ + 1]

handleDisconnect_linear(s) ==
  IF s.reconnectAttempts < maxReconnectAttempts
  THEN [s EXCEPT !.reconnectAttempts = @ + 1,
                 !.delay = reconnectDelay * (s.reconnectAttempts + 1),
                 !.pc = "timer"]
  ELSE [s EXCEPT !.pc = "idle", !.delay = 0, !.nError = @ + 1]

\* handleDisconnect(): schedule a reconnect, or give up through onError.
handleDisconnect(s) ==
  IF s.reconnectAttempts < maxReconnectAttempts
  THEN [s EXCEPT !.reconnectAttempts = @ + 1,
                 !.delay = reconnectDelay * Pow2((s.reconnectAttempts + 1) - 1),
                 !.pc = "timer"]
  ELSE [s EXCEPT !.pc = "idle", !.delay = 0, !.nError = @ + 1]

\* The part of connectViaIPC / startFetch up to its first await.
startAttempt(s) == [s EXCEPT !.pc = "connecting", !.delay = 0]

openFetch_noReset(s) ==
  [s EXCEPT !.connected = TRUE, !.pc = "open", !.stream = "live"]

\* startFetch after `await fetch` resolved with an ok response and a body.
openFetch(s) ==
  [s EXCEPT !.connected = TRUE, !.reconnectAttempts = 0,
            !.pc = "open", !.stream = "live"]

\* connectViaIPC after `await sseConnect` resolved with ok: true.
openViaIPC(s) ==
  [s EXCEPT !.streamId = TRUE, !.connected = TRUE, !.reconnectAttempts = 0,
            !.cleanupFns = 3, !.pc = "open", !.reply = FALSE]

\* The catch blocks of connectViaIPC / startFetch for an error that is not
\* an AbortError, and the end / error paths of an open stream.
failed(s) == handleDisconnect([s EXCEPT !.connected = FALSE])

\* abortController.abort(): an awaited fetch or reader.read() rejects with
\* AbortError; startFetch's catch sets connected = false and returns.
aborted(s) ==
  IF s.pc \in {"connecting", "open"}
  THEN [s EXCEPT !.connected = FALSE, !.pc = "idle", !.stream = "none"]
  ELSE s

\* disconnect()
disconnect(s) ==
  LET a == [s EXCEPT !.cleanupFns = 0]
      \* the listeners of the open IPC stream are gone: nothing wakes the
      \* renderer for it again.  sse-disconnect finds no abort controller in
      \* the main process (none is ever stored), so the stream stays live.
      b == IF electron /\ a.pc = "open" THEN [a EXCEPT !.pc = "idle"] ELSE a
      c == IF b.streamId /\ electron THEN [b EXCEPT !.streamId = FALSE] ELSE b
      d == IF c.abortController
           THEN [aborted(c) EXCEPT !.abortController = FALSE]
           ELSE c
  IN  [d EXCEPT !.connected = FALSE, !.reconnectAttempts = 0]

\* connect()
connect(s) ==
  LET d == disconnect(s)
  IN  IF electron
      THEN startAttempt(d)
      ELSE startAttempt([d EXCEPT !.abortController = TRUE])

\* The callback handed to setTimeout by handleDisconnect.
reconnect(s) ==
  IF electron
  THEN startAttempt(s)
  ELSE startAttempt([s EXCEPT !.abortController = TRUE])

\* The stream's messages reach processMessage, its end reaches
\* handleDisconnect: in browser mode the read loop of startFetch is running;
\* in IPC mode the renderer listens on the channels of the stream.
Heard(i) == sse[i].pc = "open" /\ (electron => sse[i].cleanupFns > 0)

\* JSON.parse(dataStr) followed by the loops over the entries: "throw" when
\* JSON.parse or the iteration throws, else the number of items collected.
parseItems(msg) ==
  CASE msg = "malformed" -> "throw"
    [] msg = "object" -> "throw"
    [] msg = "empty" -> "0"
    [] msg = "items" -> "1"

processMessage_rethrow(s, msg) ==
  IF parseItems(msg) = "throw"
  THEN [obj |-> failed(s), onData |-> FALSE]
  ELSE [obj |-> s, onData |-> parseItems(msg) # "0"]

\* processMessage(dataStr): the object after the call and whether onData
\* was invoked.  A throw inside the try block is caught and logged.
processMessage(s, msg) ==
  IF parseItems(msg) = "throw"
  THEN [obj |-> s, onData |-> FALSE]
  ELSE [obj |-> s, onData |-> parseItems(msg) # "0"]

\* processMessage(dataStr) invokes onData iff parsing yields items.
Delivers(i, msg) == Heard(i) /\ processMessage(sse[i], msg).onData

AfterSSE_logOnly(i, s1) ==
  /\ sse' = [sse EXCEPT ![i] = s1]
  /\ UNCHANGED <<electron, connVars, dataVars, appVars, subscriptions, panelVars, poll>>

\* A step of object i that leaves it as s1; the onError callback the panel
\* gave it is (error) => setStreaming(subscriptionId, false).
AfterSSE(i, s1) ==
  /\ sse' = [sse EXCEPT ![i] = s1]
  /\ subscriptions' = IF s1.nError # sse[i].nError
                      THEN setStreaming(subscriptions, sse[i].sub, FALSE)
                      ELSE subscriptions
  /\ UNCHANGED <<electron, connVars, dataVars, appVars, panelVars, poll>>

\* ------------------------------------------------- steps of an SSE object

\* fetch rejects / is not ok / has no body; sseConnect answers ok: false.
ConnectFail(i) ==
  /\ sse[i].made /\ sse[i].pc = "connecting" /\ ~sse[i].reply
  /\ AfterSSE(i, failed(sse[i]))

\* Browser: `await fetch` resolves with an ok response.
FetchOk(i) ==
  /\ ~electron
  /\ sse[i].made /\ sse[i].pc = "connecting"
  /\ AfterSSE(i, openFetch(sse[i]))

\* Main process: fetch is ok, processStream() is started, {ok: true} is
\* returned to the renderer.
MainFetchOk(i) ==
  /\ electron
  /\ sse[i].made /\ sse[i].pc = "connecting" /\ ~sse[i].reply
  /\ AfterSSE(i, [sse[i] EXCEPT !.stream = "live", !.reply = TRUE])

\* Renderer: the continuation of `await sseConnect` with ok: true.
IPCReplyOk(i) ==
  /\ electron
  /\ sse[i].made /\ sse[i].pc = "connecting" /\ sse[i].reply
  /\ AfterSSE(i, openViaIPC(sse[i]))

\* A `data: ` line arrives.  Browser: the read loop hands it to
\* processMessage.  IPC: the main process sends sse-data-<id>, which reaches
\* processMessage only if the renderer listens on that channel.  The object
\* itself is not changed by a message.
StreamMessage(i, msg) ==
  /\ sse[i].made /\ sse[i].stream = "live"
  /\ electron \/ sse[i].pc = "open"
  /\ AfterSSE(i, IF Heard(i) THEN processMessage(sse[i], msg).obj ELSE sse[i])

\* The response body ends or its read fails.  Browser: the read loop leaves
\* and calls handleDisconnect.  IPC: the main process sends sse-end-<id> or
\* sse-error-<id>; a renderer that does not listen yet (or no longer) never
\* learns of it.
StreamEnd(i) ==
  /\ sse[i].made /\ sse[i].stream = "live"
  /\ electron \/ sse[i].pc = "open"
  /\ LET s0 == [sse[i] EXCEPT !.stream = "none"]
     IN  AfterSSE(i, IF Heard(i) THEN failed(s0) ELSE s0)

\* The reconnect timer fires.
TimerFire(i) ==
  /\ sse[i].made /\ sse[i].pc = "timer"
  /\ AfterSSE(i, reconnect(sse[i]))

\* The caller invokes disconnect() on the object.
CallDisconnect(i) ==
  /\ sse[i].made
  /\ AfterSSE(i, disconnect(sse[i]))

\* ----------------------------------------- observer of an SSESubscription
\*   disc        disconnect() was called since connect()
\*   fails       consecutive failed attempts / stream ends since the last
\*               connect(), successful open or disconnect()
\*   timerN      value of fails when the pending timer was scheduled (0 once
\*               disconnect() has reset the counter under the pending timer)
\*   errAt       value of fails when onError was invoked
\*   opens       successful opens, saturating at 2
\*   lateAttempt a connection attempt was started while disc
\*   lateErr     onError was invoked while disc
\*   lateData    onData was invoked while disc
\*   staleConn   "inflight": disconnect() was called during the attempt in
\*               flight; "done": that attempt has completed
\*   owed        an opened stream ended with no disconnect() and no
\*               connection attempt has been started since
\*   bad         processMessage was given a message that does not parse to
\*               an array, on the stream that has been open since
\*   badData     onData was invoked for such a message
\*   badThenData onData was invoked for a later message of that stream
\*   released    disconnect() sent sse-disconnect for the streamId of a
\*               stream the main process was reading
\*   lateSend    the main process sent sse-data / sse-end / sse-error for
\*               that stream afterwards
\* kept in SpecApp only:
\*   lastDisc    the last step of the object was a disconnect() call
\*   twice       ... and the step of the object before it was one too

NoObs ==
  [disc |-> FALSE, fails |-> 0, timerN |-> 0, errAt |-> 0,
   opens |-> 0, lateAttempt |-> FALSE, lateErr |-> FALSE, lateData |-> FALSE,
   staleConn |-> "none", owed |-> FALSE,
   bad |-> FALSE, badData |-> FALSE, badThenData |-> FALSE,
   released |-> FALSE, lateSend |-> FALSE,
   lastDisc |-> FALSE, twice |-> FALSE]

Observe(i, o) ==
  /\ obs' = [obs EXCEPT ![i] = o]
  /\ UNCHANGED <<pollObs, lateAct>>

SawConnect(i) ==
  Observe(i, [obs[i] EXCEPT !.disc = FALSE, !.fails = 0,
                            !.staleConn = "none", !.bad = FALSE])

SawDisconnect(i) ==
  Observe(i, [obs[i] EXCEPT
    !.disc = TRUE, !.fails = 0, !.owed = FALSE, !.timerN = 0, !.bad = FALSE,
    !.released = @ \/ (electron /\ sse[i].streamId /\ sse[i].stream = "live"),
    !.staleConn = IF sse[i].pc = "connecting"
                  THEN (IF sse'[i].pc = "connecting" THEN "inflight" ELSE "done")
                  ELSE @])

SawAttempt(i) ==
  Observe(i, [obs[i] EXCEPT !.lateAttempt = @ \/ obs[i].disc,
                            !.owed = FALSE, !.staleConn = "none",
                            !.timerN = 0])

Completed(o) == [o EXCEPT !.staleConn = IF @ = "inflight" THEN "done" ELSE @]

FailureSeen(i, o) ==
  LET n == Min(o.fails + 1, maxReconnectAttempts + 2)
      err == sse'[i].nError # sse[i].nError
  IN  [o EXCEPT !.fails = n,
                !.timerN = IF sse'[i].pc = "timer" THEN n ELSE 0,
                !.errAt = IF err THEN n ELSE @,
                !.lateErr = @ \/ (o.disc /\ err)]

SawFail(i) == Observe(i, FailureSeen(i, Completed(obs[i])))

SawOpen(i) ==
  Observe(i, [Completed(obs[i]) EXCEPT !.fails = 0, !.opens = Min(@ + 1, 2)])

BadMessages == {msg \in Messages : msg \in {"malformed", "object"}}

SawMessage(i, msg) ==
  LET isBad == Heard(i) /\ msg \in BadMessages
      o == [obs[i] EXCEPT
             !.lateData = @ \/ (obs[i].disc /\ Delivers(i, msg)),
             !.lateSend = @ \/ (electron /\ obs[i].released),
             !.bad = @ \/ isBad,
             !.badData = @ \/ (isBad /\ Delivers(i, msg)),
             !.badThenData = @ \/ (obs[i].bad /\ ~isBad /\ Delivers(i, msg))]
  IN  Observe(i, IF sse'[i].pc # sse[i].pc
                 THEN FailureSeen(i, o)
                 ELSE o)

SawEnd(i) ==
  LET o == [obs[i] EXCEPT !.owed = @ \/ ~obs[i].disc, !.bad = FALSE,
                          !.lateSend = @ \/ (electron /\ obs[i].released)]
  IN  Observe(i, IF Heard(i) THEN FailureSeen(i, o) ELSE o)

Unobserved == UNCHANGED <<obs, pollObs, lateAct>>

\* ----------------------------------------------------- PollingSubscription
\* Fields of the object: intervalId (TRUE = non-null).  timers is the number
\* of interval timers armed by the object's setInterval calls and not
\* cleared; inflight is the number of syncFn promises awaited by poll()
\* calls; thrown: a promise returned by poll() was rejected.

NoPoll ==
  [made |-> FALSE, sub |-> NoSub, intervalId |-> FALSE, timers |-> 0,
   inflight |-> 0, thrown |-> FALSE]

\* new PollingSubscription(syncFn, onData, onError, 2000)
NewPoll(sid) == [NoPoll EXCEPT !.made = TRUE, !.sub = sid]

stop_keepTimer(p) == [p EXCEPT !.intervalId = FALSE]

stop_strict(p) ==
  IF p.intervalId
  THEN [p EXCEPT !.timers = @ - 1, !.intervalId = FALSE]
  ELSE [p EXCEPT !.thrown = TRUE]

\* stop()
stop(p) ==
  IF p.intervalId
  THEN [p EXCEPT !.timers = @ - 1, !.intervalId = FALSE]
  ELSE p

\* isRunning()
isRunning(p) == p.intervalId

\* poll() up to `await this.syncFn()`
pollCall(p) == [p EXCEPT !.inflight = @ + 1]

start_noStop(p) ==
  [pollCall(p) EXCEPT !.timers = @ + 1, !.intervalId = TRUE]

\* start()
start(p) ==
  [pollCall(stop(p)) EXCEPT !.timers = @ + 1, !.intervalId = TRUE]

\* What `await this.syncFn()` settles with.
Outcomes == {"items", "empty", "reject"}

pollSettled_stopOnError(p, outcome) ==
  [obj |-> IF outcome = "reject"
           THEN [stop(p) EXCEPT !.inflight = @ - 1]
           ELSE [p EXCEPT !.inflight = @ - 1],
   onData |-> outcome = "items",
   onError |-> outcome = "reject",
   throws |-> FALSE]

pollSettled_uncaught(p, outcome) ==
  [obj |-> [p EXCEPT !.inflight = @ - 1],
   onData |-> outcome = "items",
   onError |-> FALSE,
   throws |-> outcome = "reject"]

\* poll() after the await: onData(items) if items.length > 0; a rejection is
\* caught and handed to onError.  throws: the promise poll() returned
\* rejects.
pollSettled(p, outcome) ==
  [obj |-> [p EXCEPT !.inflight = @ - 1],
   onData |-> outcome = "items",
   onError |-> outcome = "reject",
   throws |-> FALSE]

\* A settled poll() of object i; the callbacks the panel gave the object:
\* onData = handleDataUpdate, onError = (error) => setStreaming(id, false).
AfterPoll(i, r) ==
  /\ poll' = [poll EXCEPT ![i] = [r.obj EXCEPT !.thrown = @ \/ r.throws]]
  /\ subscriptions' = IF r.onError
                      THEN setStreaming(subscriptions, poll[i].sub, FALSE)
                      ELSE subscriptions
  /\ UNCHANGED <<electron, connVars, dataVars, appVars, panelVars, sse>>

\* setInterval callback
PollTick(i) ==
  /\ poll[i].made /\ poll[i].timers > 0
  /\ poll[i].inflight < MaxInflight
  /\ poll' = [poll EXCEPT ![i] = pollCall(poll[i])]
  /\ UNCHANGED <<electron, connVars, dataVars, appVars, subscriptions, panelVars, sse>>

\* client.sync resolves with n items (0 when nothing is pending)
SyncOk(i, n) ==
  /\ poll[i].made /\ poll[i].inflight > 0
  /\ AfterPoll(i, pollSettled(poll[i], IF n > 0 THEN "items" ELSE "empty"))

\* client.sync rejects
SyncFail(i) ==
  /\ poll[i].made /\ poll[i].inflight > 0
  /\ AfterPoll(i, pollSettled(poll[i], "reject"))

\* The caller invokes stop() on the object.
CallStop(i) ==
  /\ poll[i].made
  /\ poll' = [poll EXCEPT ![i] = stop(poll[i])]
  /\ UNCHANGED <<electron, connVars, dataVars, appVars, subscriptions, panelVars, sse>>

\* The caller invokes start() on the object.
CallStart(i) ==
  /\ poll[i].made /\ poll[i].inflight < MaxInflight
  /\ poll' = [poll EXCEPT ![i] = start(poll[i])]
  /\ UNCHANGED <<electron, connVars, dataVars, appVars, subscriptions, panelVars, sse>>

\* ------------------------------------------------------- SubscriptionPanel

\* sseRef.current?.disconnect()
RefDisconnect(f) ==
  IF sseRef = 0 THEN f ELSE [f EXCEPT ![sseRef] = disconnect(f[sseRef])]

\* pollingRef.current?.stop()
RefStop(g) ==
  IF pollingRef = 0 THEN g ELSE [g EXCEPT ![pollingRef] = stop(g[pollingRef])]

\* handleStartStream(subscriptionId); the Start button is rendered for the
\* active subscription while it is not streaming.
handleStartStream(sid) ==
  /\ isConnected /\ clientInstance
  /\ sid = activeSubscriptionId /\ sid \in DOMAIN subscriptions
  /\ ~subscriptions[sid].isStreaming
  /\ nInst < MaxInst
  /\ LET id == nInst + 1
     IN  /\ nInst' = id
         /\ IF usePolling
            THEN /\ poll' = [RefStop(poll) EXCEPT ![id] = start(NewPoll(sid))]
                 /\ pollingRef' = id
                 /\ sse' = RefDisconnect(sse)
                 /\ sseRef' = sseRef
            ELSE /\ sse' = [RefDisconnect(sse) EXCEPT ![id] = connect(NewSSE(sid))]
                 /\ sseRef' = id
                 /\ poll' = RefStop(poll)
                 /\ pollingRef' = pollingRef
  /\ subscriptions' = setStreaming(subscriptions, sid, TRUE)
  /\ UNCHANGED <<electron, connVars, dataVars, appVars, activeSubscriptionId, usePolling>>

\* handleStopStream(subscriptionId); the Stop button is rendered for the
\* active subscription while it is streaming.
handleStopStream(sid) ==
  /\ sid = activeSubscriptionId /\ sid \in DOMAIN subscriptions
  /\ subscriptions[sid].isStreaming
  /\ sse' = RefDisconnect(sse)
  /\ poll' = RefStop(poll)
  /\ subscriptions' = setStreaming(subscriptions, sid, FALSE)
  /\ UNCHANGED <<electron, connVars, dataVars, appVars, panelVars>>

\* Click on a listed subscription.
setActiveSubscription(sid) ==
  /\ sid \in DOMAIN subscriptions /\ sid # activeSubscriptionId
  /\ activeSubscriptionId' = sid
  /\ UNCHANGED <<electron, connVars, dataVars, appVars, subscriptions, usePolling, sseRef, pollingRef,
                 nInst, sse, poll>>

\* The Poll checkbox; disabled while the active subscription is streaming.
setUsePolling(b) ==
  /\ activeSubscriptionId \in DOMAIN subscriptions
  /\ ~subscriptions[activeSubscriptionId].isStreaming
  /\ b # usePolling
  /\ usePolling' = b
  /\ UNCHANGED <<electron, connVars, dataVars, appVars, subscriptions, activeSubscriptionId, sseRef,
                 pollingRef, nInst, sse, poll>>

\* ------------------------------------------------ subscriptions store
NoSubscribe == [phase |-> "none", sid |-> NoSub, created |-> FALSE]

NoDelete == [sid |-> NoSub, wasStreaming |-> FALSE]

\* The store actions as functions of the subscription map.

EmptyMap == [s \in {} |-> [isStreaming |-> FALSE, monitoredItems |-> <<>>]]

\* addSubscription({id, createdAt, monitoredItems: [], isStreaming: false});
\* it also makes the subscription the active one.
addSubscription(subs, id) ==
  [s \in DOMAIN subs \cup {id} |->
     IF s = id THEN [isStreaming |-> FALSE, monitoredItems |-> <<>>]
     ELSE subs[s]]

\* removeSubscription(id): the subscription map after the call.
removeSubscription(subs, id) == [s \in DOMAIN subs \ {id} |-> subs[s]]

activeAfterRemove_keep(active, id) == active

\* removeSubscription(id): activeSubscriptionId after the call.
activeAfterRemove(active, id) == IF active = id THEN NoSub ELSE active

\* monitoredItems.includes(elementId)
includes(items, elementId) == \E k \in 1..Len(items) : items[k] = elementId

addMonitoredItem_push(subs, subscriptionId, elementId) ==
  IF subscriptionId \in DOMAIN subs
  THEN [subs EXCEPT ![subscriptionId].monitoredItems = Append(@, elementId)]
  ELSE subs

\* addMonitoredItem(subscriptionId, elementId)
addMonitoredItem(subs, subscriptionId, elementId) ==
  IF /\ subscriptionId \in DOMAIN subs
     /\ ~includes(subs[subscriptionId].monitoredItems, elementId)
  THEN [subs EXCEPT ![subscriptionId].monitoredItems = Append(@, elementId)]
  ELSE subs

\* ------------------------------------------------- push stream framing
\* Text is a sequence of characters.  The read loops of startFetch (browser)
\* and of processStream (main process) frame the decoded chunks into lines.
NL == "\n"

DataPrefix == <<"d", "a", "t", "a", ":", " ">>

\* A `data: ` line with a payload, one whose payload is blank, one whose
\* payload ends in a carriage return, a line of another field, an empty line.
StreamLines ==
  {DataPrefix \o <<"x">>, DataPrefix \o <<" ">>, DataPrefix \o <<"y", "\r">>,
   <<"i", "d", ":">>, <<>>}

\* Bodies of two lines, the second one terminated or not.
StreamTexts ==
  {a \o <<NL>> \o b \o tl : a \in StreamLines, b \in StreamLines,
                            tl \in {<<>>, <<NL>>}}

\* buffer.split('\n')
RECURSIVE split(_)
split(s) ==
  IF \A k \in 1..Len(s) : s[k] # NL
  THEN <<s>>
  ELSE LET k == CHOOSE j \in 1..Len(s) :
                  s[j] = NL /\ \A h \in 1..(j - 1) : s[h] # NL
       IN  <<SubSeq(s, 1, k - 1)>> \o split(SubSeq(s, k + 1, Len(s)))

\* line.startsWith('data: ')
startsWith(line, prefix) ==
  Len(line) >= Len(prefix) /\ SubSeq(line, 1, Len(prefix)) = prefix

\* dataStr.trim() is not empty
trim(dataStr) == \E k \in 1..Len(dataStr) : dataStr[k] \notin {" ", "\r"}

\* The for loop over the complete lines: the dataStr values handed on.
RECURSIVE forLines(_)
forLines(lines) ==
  IF lines = <<>> THEN <<>>
  ELSE (IF /\ startsWith(Head(lines), DataPrefix)
           /\ trim(SubSeq(Head(lines), 7, Len(Head(lines))))
        THEN <<SubSeq(Head(lines), 7, Len(Head(lines)))>>
        ELSE <<>>) \o forLines(Tail(lines))

\* No response body is being read.  text: the characters of the body;
\* pos: how many of them the reader has returned; buffer: the read loop's
\* buffer; out: the dataStr values handed on so far; cut: where the last
\* chunk began; done: the reader reported the end of the body.
NoFraming ==
  [text |-> <<>>, pos |-> 0, buffer |-> <<>>, out |-> <<>>, cut |-> 0,
   done |-> FALSE]

readChunk_noCarry(fr, value) ==
  LET lines == split(value)
  IN  [fr EXCEPT !.buffer = lines[Len(lines)],
                 !.out = @ \o forLines(SubSeq(lines, 1, Len(lines) - 1))]

\* startFetch: one pass of the read loop with the chunk value.
readChunk(fr, value) ==
  LET lines == split(fr.buffer \o value)
  IN  [fr EXCEPT !.buffer = lines[Len(lines)],
                 !.out = @ \o forLines(SubSeq(lines, 1, Len(lines) - 1))]

\* processStream (main process): one pass of the read loop; each dataStr is
\* sent as sse-data-<streamId> and handed to processMessage by the listener.
processStream(fr, value) ==
  LET lines == split(fr.buffer \o value)
  IN  [fr EXCEPT !.buffer = lines[Len(lines)],
                 !.out = @ \o forLines(SubSeq(lines, 1, Len(lines) - 1))]

frameRest ==
  UNCHANGED <<electron, clientInstance, pendingConnect, dataVars,
              subscriptions, panelVars, appVars, sse, poll, obs, pollObs,
              lateAct>>

\* The response of a stream request arrives with the body text.
BodyOpen(text) ==
  /\ framing = NoFraming
  /\ framing' = [NoFraming EXCEPT !.text = text]
  /\ frameRest

\* reader.read() resolves with the next n characters of the body.
BodyChunk(n) ==
  /\ framing.text # <<>> /\ ~framing.done
  /\ framing.pos + n <= Len(framing.text)
  /\ LET value == SubSeq(framing.text, framing.pos + 1, framing.pos + n)
         fr == [framing EXCEPT !.pos = @ + n, !.cut = framing.pos]
     IN  framing' = IF electron THEN processStream(fr, value)
                                ELSE readChunk(fr, value)
  /\ frameRest

\* reader.read() resolves with done: the loop is left, the buffer dropped.
BodyDone ==
  /\ framing.text # <<>> /\ ~framing.done
  /\ framing.pos = Len(framing.text)
  /\ framing' = [framing EXCEPT !.done = TRUE, !.buffer = <<>>]
  /\ frameRest

\* ------------------------------------------------------ server payloads
\* A JavaScript value as far as the code looks at it: a number n, a string
\* parseFloat reads as n ("numstr"), a string parseFloat rejects ("text"),
\* undefined, or an object.
Num(n) == [kind |-> "number", n |-> n]
NumStr(n) == [kind |-> "numstr", n |-> n]
Text == [kind |-> "text", n |-> 0]
Undefined == [kind |-> "undefined", n |-> 0]
Obj == [kind |-> "object", n |-> 0]

\* One entry of a data list, {value, quality, timestamp}; when value is an
\* object, hasData tells whether value.Data is an object and Value, Quality,
\* Timestamp are its fields.  An absent field is undefined.
Flat(v, q, ts) ==
  [value |-> v, quality |-> q, timestamp |-> ts, hasData |-> FALSE,
   Value |-> Undefined, Quality |-> "undefined", Timestamp |-> "undefined"]

Nested(v, q, ts) ==
  [value |-> Obj, quality |-> "Uncertain", timestamp |-> "undefined",
   hasData |-> TRUE, Value |-> v, Quality |-> q, Timestamp |-> ts]

RawEntries ==
  {Flat(Num(1), "Good", "t1"), Flat(NumStr(2), "Bad", "t2"),
   Flat(Text, "undefined", "undefined"),
   Flat(Undefined, "undefined", "undefined"),
   Flat(Obj, "Good", "t2"),
   Nested(Num(2), "Good", "t2"), Nested(Text, "undefined", "t1")}

\* The data lists of the payloads: empty, one entry, two entries.
DataLists ==
  {<<>>} \cup {<<r>> : r \in RawEntries}
    \cup {<<Flat(Num(1), "Good", "t1"), Flat(Num(2), "Bad", "t2")>>,
          <<Nested(Num(2), "Good", "t2"), Flat(Text, "Bad", "t1")>>}

\* One key of an array entry: elementId -> {data: [...]}; missing: the
\* payload under the key has no data list.
Pairs ==
  {[elementId |-> e, missing |-> FALSE, data |-> d] :
     e \in Elements, d \in DataLists}
  \cup {[elementId |-> e, missing |-> TRUE, data |-> <<>>] : e \in Elements}

\* The payload arrays the server sends (the body of a stream message or of a
\* sync response): arrays of entries, an entry being an object with one or
\* more element keys.  The empty array; one entry with one key (any data
\* list for e1, a one-entry list for e2); two entries, a number for e1 and
\* then any one-entry list for either element; one entry with two keys, e1
\* with two data entries and e2 with an empty, a missing or a flat list.
Payloads ==
  {<<>>}
    \cup {<< <<pr>> >> :
            pr \in {q \in Pairs : q.elementId = "e1" \/ Len(q.data) = 1}}
    \cup {<< <<p1>>, <<p2>> >> :
            p1 \in {pr \in Pairs : /\ pr.elementId = "e1" /\ Len(pr.data) = 1
                                   /\ pr.data[1].value.kind = "number"},
            p2 \in {pr \in Pairs : /\ Len(pr.data) = 1
                                   /\ pr.data[1].quality # "Good"}}
    \cup {<< <<p1, p2>> >> :
            p1 \in {pr \in Pairs : pr.elementId = "e1" /\ Len(pr.data) = 2},
            p2 \in {pr \in Pairs : /\ pr.elementId = "e2"
                                   /\ \/ pr.data = <<>>
                                      \/ pr.data = <<Flat(Text, "undefined",
                                                          "undefined")>>}}

\* vqt.quality ?? null
orNull(x) == IF x = "undefined" THEN "null" ELSE x

extractVQT_flatOnly(payload) ==
  [value |-> payload.value, quality |-> payload.quality,
   timestamp |-> payload.timestamp]

\* extractVQT of src/src/api/subscription.ts
extractVQT(payload) ==
  IF payload.value.kind = "object" /\ payload.hasData
  THEN [value |-> payload.Value, quality |-> payload.Quality,
        timestamp |-> payload.Timestamp]
  ELSE [value |-> payload.value, quality |-> payload.quality,
        timestamp |-> payload.timestamp]

clientExtractVQT_flatOnly(payload) ==
  [value |-> payload.value, quality |-> payload.quality,
   timestamp |-> payload.timestamp]

\* extractVQT of the catalog client
clientExtractVQT(payload) ==
  IF payload.value.kind = "object" /\ payload.hasData
  THEN [value |-> payload.Value, quality |-> payload.Quality,
        timestamp |-> payload.Timestamp]
  ELSE [value |-> payload.value, quality |-> payload.quality,
        timestamp |-> payload.timestamp]

\* The item pushed for (elementId, payload.data[0])
Item(elementId, vqt) ==
  [elementId |-> elementId, value |-> vqt.value,
   quality |-> orNull(vqt.quality), timestamp |-> orNull(vqt.timestamp)]

\* payload?.data?.[0]
hasFirst(pr) == ~pr.missing /\ Len(pr.data) > 0

RECURSIVE allOf(_, _)
allOf(elementId, data) ==
  IF data = <<>> THEN <<>>
  ELSE <<Item(elementId, extractVQT(Head(data)))>>
         \o allOf(elementId, Tail(data))

RECURSIVE entryItems_all(_)
entryItems_all(entry) ==
  IF entry = <<>> THEN <<>>
  ELSE (IF hasFirst(Head(entry))
        THEN allOf(Head(entry).elementId, Head(entry).data)
        ELSE <<>>) \o entryItems_all(Tail(entry))

\* processMessage: the inner loop, over the keys of one entry
RECURSIVE entryItems(_)
entryItems(entry) ==
  IF entry = <<>> THEN <<>>
  ELSE (IF hasFirst(Head(entry))
        THEN <<Item(Head(entry).elementId, extractVQT(Head(entry).data[1]))>>
        ELSE <<>>) \o entryItems(Tail(entry))

\* processMessage: the outer loop, over the entries of rawData
RECURSIVE messageItems(_)
messageItems(rawData) ==
  IF rawData = <<>> THEN <<>>
  ELSE entryItems(Head(rawData)) \o messageItems(Tail(rawData))

\* I3XClient.sync: the inner loop, over the keys of one entry
RECURSIVE syncEntryItems(_)
syncEntryItems(entry) ==
  IF entry = <<>> THEN <<>>
  ELSE (IF hasFirst(Head(entry))
        THEN <<Item(Head(entry).elementId,
                    clientExtractVQT(Head(entry).data[1]))>>
        ELSE <<>>) \o syncEntryItems(Tail(entry))

\* I3XClient.sync: the outer loop, over the entries of the response
RECURSIVE sync(_)
sync(response) ==
  IF response = <<>> THEN <<>>
  ELSE syncEntryItems(Head(response)) \o sync(Tail(response))

\* ------------------------------------------------------ Live Value Store
\* A LiveValue holds value, quality, timestamp (displayName is the
\* elementId, lastUpdated the wall clock); a trend point holds the numeric
\* value (its timestamp is the wall clock at the append).

MAX_TREND_POINTS == 60

NaN == 0 - 1

NoValue ==
  [present |-> FALSE, value |-> Undefined, quality |-> "null",
   timestamp |-> "null"]

EmptyData ==
  [liveValues |-> [e \in Elements |-> NoValue],
   trendData |-> [e \in Elements |-> <<>>]]

\* typeof value === 'number' ? value : parseFloat(String(value))
numericValue(v) == IF v.kind \in {"number", "numstr"} THEN v.n ELSE NaN

slice_first(points) ==
  IF Len(points) > MAX_TREND_POINTS
  THEN SubSeq(points, 1, MAX_TREND_POINTS)
  ELSE points

\* points.slice(-MAX_TREND_POINTS)
slice(points) ==
  IF Len(points) > MAX_TREND_POINTS
  THEN SubSeq(points, Len(points) - MAX_TREND_POINTS + 1, Len(points))
  ELSE points

updateLiveValue_trendAll(st, item) ==
  [liveValues |-> [st.liveValues EXCEPT ![item.elementId] =
     [present |-> TRUE, value |-> item.value, quality |-> item.quality,
      timestamp |-> item.timestamp]],
   trendData |-> [st.trendData EXCEPT ![item.elementId] =
        slice(Append(@, numericValue(item.value)))]]

updateLiveValue_keepFirst(st, item) ==
  [liveValues |-> IF st.liveValues[item.elementId].present
     THEN st.liveValues
     ELSE [st.liveValues EXCEPT ![item.elementId] =
       [present |-> TRUE, value |-> item.value, quality |-> item.quality,
        timestamp |-> item.timestamp]],
   trendData |->
     IF numericValue(item.value) # NaN
     THEN [st.trendData EXCEPT ![item.elementId] =
             slice(Append(@, numericValue(item.value)))]
     ELSE st.trendData]

\* updateLiveValue(value) on the store st = [liveValues, trendData]
updateLiveValue(st, item) ==
  [liveValues |-> [st.liveValues EXCEPT ![item.elementId] =
     [present |-> TRUE, value |-> item.value, quality |-> item.quality,
      timestamp |-> item.timestamp]],
   trendData |->
     IF numericValue(item.value) # NaN
     THEN [st.trendData EXCEPT ![item.elementId] =
             slice(Append(@, numericValue(item.value)))]
     ELSE st.trendData]

RECURSIVE handleDataUpdate_reversed(_, _)
handleDataUpdate_reversed(st, items) ==
  IF items = <<>> THEN st
  ELSE updateLiveValue(handleDataUpdate_reversed(st, Tail(items)), Head(items))

\* handleDataUpdate(items): items.forEach(updateLiveValue)
RECURSIVE handleDataUpdate(_, _)
handleDataUpdate(st, items) ==
  IF items = <<>> THEN st
  ELSE handleDataUpdate(updateLiveValue(st, Head(items)), Tail(items))

\* monitoredItems.filter(id => id !== elementId)
filter(items, elementId) == SelectSeq(items, LAMBDA id : id # elementId)

removeMonitoredItem_keepValue(subs, values, subscriptionId, elementId) ==
  IF subscriptionId \in DOMAIN subs
  THEN [subscriptions |->
          [subs EXCEPT ![subscriptionId].monitoredItems = filter(@, elementId)],
        liveValues |-> values]
  ELSE [subscriptions |-> subs, liveValues |-> values]

\* removeMonitoredItem(subscriptionId, elementId): the subscription map and
\* liveValues after the call (trendData is not written).
removeMonitoredItem(subs, values, subscriptionId, elementId) ==
  IF subscriptionId \in DOMAIN subs
  THEN [subscriptions |->
          [subs EXCEPT ![subscriptionId].monitoredItems = filter(@, elementId)],
        liveValues |-> [values EXCEPT ![elementId] = NoValue]]
  ELSE [subscriptions |-> subs, liveValues |-> values]

\* The store's two maps as one record, and a record written back.
Store == [liveValues |-> liveValues, trendData |-> trendData]

setStore(st) ==
  /\ liveValues' = st.liveValues
  /\ trendData' = st.trendData

\* if (items.length > 0) this.onData(items), onData being handleDataUpdate
deliver(st, items) ==
  IF Len(items) > 0 THEN handleDataUpdate(st, items) ELSE st

\* ------------------------------------- observer of the Live Value Store
\* dataObs: mode (the last step on the store: "push", "poll", "remove",
\* "reset" or "none"), payload and items (the payload array of the last
\* delivery and the batch handed to onData), other (the batch the other
\* sub-mode computes from the same payload), before (the store before the
\* last step), shadow (the store had every payload so far gone through the
\* other sub-mode), applied (per element, the last item applied since the
\* element was last dropped or reset), sub / el / hadSub (the arguments of
\* the last removeMonitoredItem and whether the subscription existed), n (deliveries
\* so far), arrivals (per element, numeric updates so far), resets (clearAll
\* calls so far, counted up to MaxResets), again (the last clearAll found
\* the store as a clearAll leaves it).
NoItem ==
  [elementId |-> "none", value |-> Undefined, quality |-> "null",
   timestamp |-> "null"]

NoDataObs ==
  [mode |-> "none", payload |-> <<>>, items |-> <<>>, other |-> <<>>,
   before |-> EmptyData, shadow |-> EmptyData,
   applied |-> [e \in Elements |-> NoItem], sub |-> NoSub, el |-> "none",
   hadSub |-> FALSE,
   n |-> 0, arrivals |-> [e \in Elements |-> 0], resets |-> 0,
   again |-> FALSE]

\* The last item of the batch for element e, or the one applied before.
RECURSIVE lastFor(_, _, _)
lastFor(e, items, prev) ==
  IF items = <<>> THEN prev
  ELSE lastFor(e, Tail(items),
               IF Head(items).elementId = e THEN Head(items) ELSE prev)

SawBatch(mode, payload, items, other) ==
  dataObs' = [dataObs EXCEPT
    !.mode = mode, !.payload = payload, !.items = items, !.other = other,
    !.before = Store, !.shadow = deliver(@, other),
    !.applied = [e \in Elements |-> lastFor(e, items, @[e])],
    !.n = Min(@ + 1, MaxBatches)]

SawRemove(subscriptionId, elementId) ==
  dataObs' = [dataObs EXCEPT
    !.mode = "remove", !.before = Store, !.sub = subscriptionId,
    !.el = elementId,
    !.hadSub = subscriptionId \in DOMAIN subscriptions,
    !.shadow = IF subscriptionId \in DOMAIN subscriptions
               THEN [@ EXCEPT !.liveValues[elementId] = NoValue] ELSE @,
    !.applied = IF subscriptionId \in DOMAIN subscriptions
                THEN [@ EXCEPT ![elementId] = NoItem] ELSE @]

StoreEmpty ==
  /\ subscriptions = EmptyMap /\ activeSubscriptionId = NoSub
  /\ Store = EmptyData

SawReset ==
  dataObs' = [dataObs EXCEPT
    !.mode = "reset", !.before = Store, !.shadow = EmptyData,
    !.resets = Min(@ + 1, MaxResets), !.again = StoreEmpty,
    !.applied = [e \in Elements |-> NoItem]]

\* -------------------------------------------------- deliveries and drops
\* A stream message carrying a JSON array reaches processMessage, which
\* hands the batch to handleDataUpdate.
PushBatch(payload) ==
  /\ setStore(deliver(Store, messageItems(payload)))
  /\ SawBatch("push", payload, messageItems(payload), sync(payload))

\* A sync response carrying the array resolves in poll(), which hands the
\* batch to handleDataUpdate.
PollBatch(payload) ==
  /\ setStore(deliver(Store, sync(payload)))
  /\ SawBatch("poll", payload, sync(payload), messageItems(payload))

\* The store's removeMonitoredItem(subscriptionId, elementId).
RemoveItem(subscriptionId, elementId) ==
  /\ subscriptions' =
       removeMonitoredItem(subscriptions, liveValues, subscriptionId,
                           elementId).subscriptions
  /\ liveValues' =
       removeMonitoredItem(subscriptions, liveValues, subscriptionId,
                           elementId).liveValues
  /\ UNCHANGED trendData
  /\ SawRemove(subscriptionId, elementId)

\* ------------------------------------------ ObjectDetail: handleSubscribe
\* pendingSubscribe[el], for the detail view of element el: phase "create"
\* (awaiting createSubscription) or "register" (awaiting
\* registerMonitoredItems), the subscription id, and whether this run of
\* the handler added the subscription to the store.

\* handleSubscribe up to its first await
SubscribeBegin(el) ==
  /\ isConnected /\ clientInstance /\ pendingSubscribe[el].phase = "none"
  /\ pendingSubscribe' = [pendingSubscribe EXCEPT ![el] =
       IF activeSubscriptionId = NoSub
       THEN [phase |-> "create", sid |-> NoSub, created |-> FALSE]
       ELSE [phase |-> "register", sid |-> activeSubscriptionId,
             created |-> FALSE]]
  /\ UNCHANGED <<electron, connVars, dataVars, subscriptions, panelVars, isConnected, server,
                 pendingDelete, sse, poll>>

\* createSubscription resolves with a new id: addSubscription, then
\* registerMonitoredItems is awaited.
CreateOk(el, sid) ==
  /\ pendingSubscribe[el].phase = "create" /\ server[sid] = "none"
  /\ server' = [server EXCEPT ![sid] = "live"]
  /\ subscriptions' = addSubscription(subscriptions, sid)
  /\ activeSubscriptionId' = sid
  /\ pendingSubscribe' = [pendingSubscribe EXCEPT ![el] =
       [phase |-> "register", sid |-> sid, created |-> TRUE]]
  /\ UNCHANGED <<electron, connVars, dataVars, usePolling, sseRef, pollingRef, nInst,
                 isConnected, pendingDelete, sse, poll>>

\* createSubscription rejects: the catch block logs.
CreateFail(el) ==
  /\ pendingSubscribe[el].phase = "create"
  /\ pendingSubscribe' = [pendingSubscribe EXCEPT ![el] = NoSubscribe]
  /\ UNCHANGED <<electron, connVars, dataVars, subscriptions, panelVars, isConnected, server,
                 pendingDelete, sse, poll>>

\* registerMonitoredItems resolves: addMonitoredItem.
RegisterOk(el) ==
  /\ pendingSubscribe[el].phase = "register"
  /\ server[pendingSubscribe[el].sid] = "live"
  /\ subscriptions' =
       addMonitoredItem(subscriptions, pendingSubscribe[el].sid, el)
  /\ pendingSubscribe' = [pendingSubscribe EXCEPT ![el] = NoSubscribe]
  /\ UNCHANGED <<electron, connVars, dataVars, panelVars, isConnected, server, pendingDelete,
                 sse, poll>>

\* registerMonitoredItems rejects: the catch block logs.
RegisterFail(el) ==
  /\ pendingSubscribe[el].phase = "register"
  /\ pendingSubscribe' = [pendingSubscribe EXCEPT ![el] = NoSubscribe]
  /\ UNCHANGED <<electron, connVars, dataVars, subscriptions, panelVars, isConnected, server,
                 pendingDelete, sse, poll>>

\* --------------------------------------- SubscriptionPanel: handleDelete
\* pendingDelete: the subscription whose deleteSubscription call is awaited
\* and the isStreaming flag the handler's closure saw.

\* handleDelete(activeSubscriptionId) up to its await
DeleteBegin(sid) ==
  /\ isConnected /\ clientInstance /\ pendingDelete.sid = NoSub
  /\ sid = activeSubscriptionId /\ sid \in DOMAIN subscriptions
  /\ pendingDelete' =
       [sid |-> sid, wasStreaming |-> subscriptions[sid].isStreaming]
  /\ UNCHANGED <<electron, connVars, dataVars, subscriptions, panelVars, isConnected, server,
                 pendingSubscribe, sse, poll>>

\* deleteSubscription resolves: disconnect the push stream if the
\* subscription was streaming, removeSubscription.
DeleteOk ==
  /\ pendingDelete.sid # NoSub /\ server[pendingDelete.sid] = "live"
  /\ server' = [server EXCEPT ![pendingDelete.sid] = "deleted"]
  /\ sse' = IF pendingDelete.wasStreaming THEN RefDisconnect(sse) ELSE sse
  /\ subscriptions' = removeSubscription(subscriptions, pendingDelete.sid)
  /\ activeSubscriptionId' =
       activeAfterRemove(activeSubscriptionId, pendingDelete.sid)
  /\ pendingDelete' = NoDelete
  /\ UNCHANGED <<electron, connVars, dataVars, usePolling, sseRef, pollingRef, nInst,
                 isConnected, pendingSubscribe, poll>>

\* deleteSubscription rejects: the catch block logs.
DeleteFail ==
  /\ pendingDelete.sid # NoSub
  /\ pendingDelete' = NoDelete
  /\ UNCHANGED <<electron, connVars, dataVars, subscriptions, panelVars, isConnected, server,
                 pendingSubscribe, sse, poll>>

\* ------------------------------------------- Toolbar: handleDisconnect
\* destroyClient(), disconnectStore(), clearSubscriptions(); the panel's
\* effect on !isConnected then disconnects and drops the transports it
\* holds.  Nothing is sent to the server.
clearAll_keepActive ==
  /\ subscriptions' = EmptyMap
  /\ liveValues' = EmptyData.liveValues
  /\ trendData' = EmptyData.trendData
  /\ UNCHANGED activeSubscriptionId

\* clearAll()
clearAll ==
  /\ subscriptions' = EmptyMap
  /\ liveValues' = EmptyData.liveValues
  /\ trendData' = EmptyData.trendData
  /\ activeSubscriptionId' = NoSub

ToolbarDisconnect ==
  /\ isConnected
  /\ clientInstance' = FALSE
  /\ isConnected' = FALSE
  /\ clearAll
  /\ sse' = RefDisconnect(sse)
  /\ sseRef' = 0
  /\ poll' = RefStop(poll)
  /\ pollingRef' = 0
  /\ UNCHANGED <<electron, pendingConnect, framing, usePolling, nInst,
                 server, pendingSubscribe, pendingDelete>>

\* The panel's effect on !isConnected, run when the panel is mounted (the
\* bottom panel is expanded) while the application is disconnected.
DisconnectedEffect ==
  /\ ~isConnected
  /\ sse' = RefDisconnect(sse)
  /\ sseRef' = 0
  /\ poll' = RefStop(poll)
  /\ pollingRef' = 0
  /\ clearAll
  /\ UNCHANGED <<electron, connVars, appVars, usePolling, nInst>>

\* --------------------------------------------- Toolbar: handleConnect
\* pendingConnect: "testing" (awaiting testConnection) or "loading"
\* (awaiting getNamespaces and getObjectTypes).
connFrame ==
  UNCHANGED <<electron, framing, dataVars, subscriptions, panelVars, server,
              pendingSubscribe, pendingDelete, sse, poll>>

\* handleConnect up to its first await: createClient.
ConnectBegin ==
  /\ ~isConnected /\ pendingConnect = "idle"
  /\ clientInstance' = TRUE
  /\ pendingConnect' = "testing"
  /\ UNCHANGED isConnected
  /\ connFrame

\* testConnection resolves true: setConnected(true), the initial load is
\* awaited.
TestOk ==
  /\ pendingConnect = "testing"
  /\ isConnected' = TRUE
  /\ pendingConnect' = "loading"
  /\ UNCHANGED clientInstance
  /\ connFrame

\* testConnection resolves false: setError, destroyClient.
TestFail ==
  /\ pendingConnect = "testing"
  /\ clientInstance' = FALSE
  /\ pendingConnect' = "idle"
  /\ UNCHANGED isConnected
  /\ connFrame

\* getNamespaces and getObjectTypes resolve: the explorer store is filled.
LoadOk ==
  /\ pendingConnect = "loading"
  /\ pendingConnect' = "idle"
  /\ UNCHANGED <<isConnected, clientInstance>>
  /\ connFrame

\* One of them rejects: the catch block calls setError and destroyClient.
LoadFail ==
  /\ pendingConnect = "loading"
  /\ clientInstance' = FALSE
  /\ pendingConnect' = "idle"
  /\ UNCHANGED isConnected
  /\ connFrame

\* ------------------------------------------- observers of the panel's feeds
\* pollObs[i]: stopped (stop() was called on the object since start()),
\* lateData / lateErr (its onData / onError was invoked while stopped);
\* kept in SpecPoll only: last (the last step of the object), lastErr
\* (onError was invoked in it), nFail (consecutive rejected syncFn calls since
\* start(), counted up to MaxFails), lateCall (syncFn was called while
\* stopped), restarted (start() was called while running, no stop() since);
\* kept in SpecApp only: last ("stop" or "none"), twice (the last two steps
\* of the object were stop() calls).
\* lateAct[i]: transport i delivered a batch or started a connection attempt
\* after a later feed had been started for the same subscription.

NoPollObs ==
  [stopped |-> FALSE, lateData |-> FALSE, lateErr |-> FALSE,
   last |-> "none", lastErr |-> FALSE, nFail |-> 0, lateCall |-> FALSE,
   restarted |-> FALSE, twice |-> FALSE]

SubOf(i) == IF sse[i].made THEN sse[i].sub ELSE poll[i].sub

Superseded(i) ==
  \E j \in Inst : j > i /\ j <= nInst /\ SubOf(j) = SubOf(i)

SawAct(i, acted) ==
  /\ lateAct' = [lateAct EXCEPT ![i] = @ \/ (acted /\ Superseded(i))]
  /\ UNCHANGED <<obs, pollObs>>

SawSettled(i, data, err) ==
  /\ pollObs' = [pollObs EXCEPT
       ![i].lateData = @ \/ (pollObs[i].stopped /\ data),
       ![i].lateErr = @ \/ (pollObs[i].stopped /\ err)]
  /\ lateAct' = [lateAct EXCEPT ![i] = @ \/ (data /\ Superseded(i))]
  /\ UNCHANGED obs

\* stop() reaches the object pollingRef holds; start() is called on the new one
SawRefs ==
  /\ pollObs' = [i \in Inst |->
       IF i = pollingRef THEN [pollObs[i] EXCEPT !.stopped = TRUE]
       ELSE pollObs[i]]
  /\ UNCHANGED <<obs, lateAct>>

ObservePoll(i, o) ==
  /\ pollObs' = [pollObs EXCEPT ![i] = o]
  /\ UNCHANGED <<obs, lateAct>>

SawStart(i) ==
  ObservePoll(i, [pollObs[i] EXCEPT
    !.stopped = FALSE, !.last = "start", !.lastErr = FALSE, !.nFail = 0,
    !.restarted = isRunning(poll[i])])

SawStop(i) ==
  ObservePoll(i, [pollObs[i] EXCEPT
    !.stopped = TRUE, !.last = "stop", !.lastErr = FALSE,
    !.restarted = FALSE])

SawTick(i) ==
  ObservePoll(i, [pollObs[i] EXCEPT
    !.last = "tick", !.lastErr = FALSE,
    !.lateCall = @ \/ pollObs[i].stopped])

SawPollOk(i, n) ==
  LET r == pollSettled(poll[i], IF n > 0 THEN "items" ELSE "empty")
  IN  ObservePoll(i, [pollObs[i] EXCEPT
        !.last = "ok", !.lastErr = r.onError, !.nFail = 0,
        !.lateData = @ \/ (pollObs[i].stopped /\ r.onData)])

SawPollFail(i) ==
  LET r == pollSettled(poll[i], "reject")
  IN  ObservePoll(i, [pollObs[i] EXCEPT
        !.last = "fail", !.lastErr = r.onError,
        !.nFail = Min(@ + 1, MaxFails),
        !.lateErr = @ \/ (pollObs[i].stopped /\ r.onError)])

\* A handler of the panel called disconnect() on object discOn and stop() on
\* object stopOn (0: on none).
SawCalls(discOn, stopOn) ==
  /\ obs' = [i \in Inst |->
       IF i = discOn
       THEN [obs[i] EXCEPT !.twice = obs[i].lastDisc, !.lastDisc = TRUE]
       ELSE obs[i]]
  /\ pollObs' = [i \in Inst |->
       IF i = stopOn
       THEN [pollObs[i] EXCEPT !.twice = (pollObs[i].last = "stop"),
                               !.last = "stop"]
       ELSE pollObs[i]]
  /\ UNCHANGED lateAct

\* A step of the chain of SSE object i.
SawFeedSSE(i) ==
  /\ obs' = [obs EXCEPT ![i].lastDisc = FALSE, ![i].twice = FALSE]
  /\ UNCHANGED <<pollObs, lateAct>>

\* A step of poller i.
SawFeedPoll(i) ==
  /\ pollObs' = [pollObs EXCEPT ![i].last = "none", ![i].twice = FALSE]
  /\ UNCHANGED <<obs, lateAct>>

\* ------------------------------------------------------------------ init

InitStore ==
  /\ subscriptions =
       [s \in SubIds |-> [isStreaming |-> FALSE, monitoredItems |-> <<"e1">>]]
  /\ activeSubscriptionId = "s1"
  /\ isConnected = TRUE
  /\ clientInstance = TRUE
  /\ pendingConnect = "idle"
  /\ server = [s \in SubIds |-> "live"]
  /\ pendingSubscribe = [el \in Elements |-> NoSubscribe]
  /\ pendingDelete = NoDelete
  /\ liveValues = EmptyData.liveValues
  /\ trendData = EmptyData.trendData

InitObservers ==
  /\ framing = NoFraming
  /\ dataObs = NoDataObs
  /\ obs = [i \in Inst |-> NoObs]
  /\ pollObs = [i \in Inst |-> NoPollObs]
  /\ lateAct = [i \in Inst |-> FALSE]

\* The panel, connected to a server, with two subscriptions created and no
\* feed started yet.
InitPanel ==
  /\ electron \in BOOLEAN
  /\ InitStore
  /\ usePolling = FALSE
  /\ sseRef = 0 /\ pollingRef = 0 /\ nInst = 0
  /\ sse = [i \in Inst |-> NoSSE]
  /\ poll = [i \in Inst |-> NoPoll]
  /\ InitObservers

\* --- SpecSSE: the first SSESubscription the panel creates (object 1, for
\* subscription s1), with disconnect() called on it at any time by whoever
\* holds it (Stop, a later Start, Delete, the cleanup effects).

Obj_Start ==
  nInst = 0 /\ ~usePolling /\ handleStartStream("s1") /\ SawConnect(1)

Obj_Disconnect == CallDisconnect(1) /\ SawDisconnect(1)

Obj_ConnectFail == ConnectFail(1) /\ SawFail(1)

Obj_FetchOk == FetchOk(1) /\ SawOpen(1)

Obj_MainFetchOk == MainFetchOk(1) /\ Unobserved

Obj_IPCReplyOk == IPCReplyOk(1) /\ SawOpen(1)

Obj_StreamMessage(msg) == StreamMessage(1, msg) /\ SawMessage(1, msg)

Obj_StreamEnd == StreamEnd(1) /\ SawEnd(1)

Obj_TimerFire == TimerFire(1) /\ SawAttempt(1)

NextSSE ==
  \/ Obj_Start
  \/ Obj_Disconnect
  \/ Obj_ConnectFail
  \/ Obj_FetchOk
  \/ Obj_MainFetchOk
  \/ Obj_IPCReplyOk
  \/ \E msg \in Messages : Obj_StreamMessage(msg)
  \/ Obj_StreamEnd
  \/ Obj_TimerFire

SpecSSE == InitPanel /\ [][NextSSE]_vars

\* --- SpecPoll: the first PollingSubscription the panel creates (object 1,
\* for subscription s1, after the Poll box was ticked), with stop() and
\* start() called on it at any time by whoever holds it.

Poll_SetPolling == nInst = 0 /\ setUsePolling(TRUE) /\ Unobserved

Poll_Start ==
  nInst = 0 /\ usePolling /\ handleStartStream("s1") /\ SawStart(1)

Poll_Restart == CallStart(1) /\ SawStart(1)

Poll_Stop == CallStop(1) /\ SawStop(1)

Poll_Tick == PollTick(1) /\ SawTick(1)

Poll_SyncOk(n) == SyncOk(1, n) /\ SawPollOk(1, n)

Poll_SyncFail == SyncFail(1) /\ SawPollFail(1)

NextPoll ==
  \/ Poll_SetPolling
  \/ Poll_Start
  \/ Poll_Restart
  \/ Poll_Stop
  \/ Poll_Tick
  \/ \E n \in 0..1 : Poll_SyncOk(n)
  \/ Poll_SyncFail

SpecPoll == InitPanel /\ [][NextPoll]_vars

\* --- SpecStore: the application connected to a server with nothing
\* subscribed yet: Subscribe on the detail views, selection, Delete and
\* Disconnect, with no feed started.

InitApp ==
  /\ electron \in BOOLEAN
  /\ subscriptions = EmptyMap
  /\ activeSubscriptionId = NoSub
  /\ isConnected = TRUE
  /\ clientInstance = TRUE
  /\ pendingConnect = "idle"
  /\ server = [s \in SubIds |-> "none"]
  /\ pendingSubscribe = [el \in Elements |-> NoSubscribe]
  /\ pendingDelete = NoDelete
  /\ liveValues = EmptyData.liveValues
  /\ trendData = EmptyData.trendData
  /\ usePolling = FALSE
  /\ sseRef = 0 /\ pollingRef = 0 /\ nInst = 0
  /\ sse = [i \in Inst |-> NoSSE]
  /\ poll = [i \in Inst |-> NoPoll]
  /\ InitObservers

Store_SubscribeBegin(el) == SubscribeBegin(el) /\ Unobserved

Store_CreateOk(el, sid) == CreateOk(el, sid) /\ Unobserved

Store_CreateFail(el) == CreateFail(el) /\ Unobserved

Store_RegisterOk(el) == RegisterOk(el) /\ Unobserved

Store_RegisterFail(el) == RegisterFail(el) /\ Unobserved

Store_Select(sid) == setActiveSubscription(sid) /\ Unobserved

Store_DeleteBegin(sid) == DeleteBegin(sid) /\ Unobserved

Store_DeleteOk == DeleteOk /\ Unobserved

Store_DeleteFail == DeleteFail /\ Unobserved

Store_Disconnect == ToolbarDisconnect /\ Unobserved /\ UNCHANGED dataObs

NextStore ==
  \/ \E el \in Elements : Store_SubscribeBegin(el)
  \/ \E el \in Elements, sid \in SubIds : Store_CreateOk(el, sid)
  \/ \E el \in Elements : Store_CreateFail(el)
  \/ \E el \in Elements : Store_RegisterOk(el)
  \/ \E el \in Elements : Store_RegisterFail(el)
  \/ \E sid \in SubIds : Store_Select(sid)
  \/ \E sid \in SubIds : Store_DeleteBegin(sid)
  \/ Store_DeleteOk
  \/ Store_DeleteFail
  \/ Store_Disconnect

SpecStore == InitApp /\ [][NextStore]_vars

\* --- SpecApp: the panel with two subscriptions: its handlers, Delete, the
\* toolbar's Disconnect, and the transports the panel creates, against a
\* server whose streams, once requested, open and stay open (the failures
\* and reconnects of a push stream are the subject of SpecSSE and
\* SpecPanel).

App_Start(sid) == handleStartStream(sid) /\ SawCalls(sseRef, pollingRef)

App_Stop(sid) == handleStopStream(sid) /\ SawCalls(sseRef, pollingRef)

App_Select(sid) == setActiveSubscription(sid) /\ Unobserved

App_SetPolling(b) == setUsePolling(b) /\ Unobserved

App_DeleteBegin(sid) == DeleteBegin(sid) /\ Unobserved

App_DeleteOk ==
  DeleteOk /\ SawCalls(IF pendingDelete.wasStreaming THEN sseRef ELSE 0, 0)

App_DeleteFail == DeleteFail /\ Unobserved

App_Disconnect ==
  ToolbarDisconnect /\ SawCalls(sseRef, pollingRef) /\ UNCHANGED dataObs

App_FetchOk(i) == FetchOk(i) /\ SawFeedSSE(i)

App_MainFetchOk(i) == MainFetchOk(i) /\ SawFeedSSE(i)

App_IPCReplyOk(i) == IPCReplyOk(i) /\ SawFeedSSE(i)

App_PollTick(i) == PollTick(i) /\ SawFeedPoll(i)

App_SyncOk(i, n) == SyncOk(i, n) /\ SawFeedPoll(i)

App_SyncFail(i) == SyncFail(i) /\ SawFeedPoll(i)

NextApp ==
  \/ \E sid \in SubIds : App_Start(sid)
  \/ \E sid \in SubIds : App_Stop(sid)
  \/ \E sid \in SubIds : App_Select(sid)
  \/ \E b \in BOOLEAN : App_SetPolling(b)
  \/ \E sid \in SubIds : App_DeleteBegin(sid)
  \/ App_DeleteOk
  \/ App_DeleteFail
  \/ App_Disconnect
  \/ \E i \in Inst : App_FetchOk(i)
  \/ \E i \in Inst : App_MainFetchOk(i)
  \/ \E i \in Inst : App_IPCReplyOk(i)
  \/ \E i \in Inst : App_PollTick(i)
  \/ \E i \in Inst, n \in 0..1 : App_SyncOk(i, n)
  \/ \E i \in Inst : App_SyncFail(i)

SpecApp == InitPanel /\ [][NextApp]_vars

\* --- SpecPanel: the panel's handlers and every transport they create.

Panel_Start(sid) == handleStartStream(sid) /\ SawRefs

Panel_Stop(sid) == handleStopStream(sid) /\ SawRefs

Panel_Select(sid) == setActiveSubscription(sid) /\ Unobserved

Panel_SetPolling(b) == setUsePolling(b) /\ Unobserved

Feed_ConnectFail(i) == ConnectFail(i) /\ Unobserved

Feed_FetchOk(i) == FetchOk(i) /\ Unobserved

Feed_MainFetchOk(i) == MainFetchOk(i) /\ Unobserved

Feed_IPCReplyOk(i) == IPCReplyOk(i) /\ Unobserved

Feed_StreamMessage(i, msg) ==
  StreamMessage(i, msg) /\ SawAct(i, Delivers(i, msg))

Feed_StreamEnd(i) == StreamEnd(i) /\ Unobserved

Feed_TimerFire(i) == TimerFire(i) /\ SawAct(i, TRUE)

Feed_PollTick(i) == PollTick(i) /\ SawAct(i, TRUE)

Feed_SyncOk(i, n) == SyncOk(i, n) /\ SawSettled(i, n > 0, FALSE)

Feed_SyncFail(i) == SyncFail(i) /\ SawSettled(i, FALSE, TRUE)

NextPanel ==
  \/ \E sid \in SubIds : Panel_Start(sid)
  \/ \E sid \in SubIds : Panel_Stop(sid)
  \/ \E sid \in SubIds : Panel_Select(sid)
  \/ \E b \in BOOLEAN : Panel_SetPolling(b)
  \/ \E i \in Inst : Feed_ConnectFail(i)
  \/ \E i \in Inst : Feed_FetchOk(i)
  \/ \E i \in Inst : Feed_MainFetchOk(i)
  \/ \E i \in Inst : Feed_IPCReplyOk(i)
  \/ \E i \in Inst, msg \in Messages : Feed_StreamMessage(i, msg)
  \/ \E i \in Inst : Feed_StreamEnd(i)
  \/ \E i \in Inst : Feed_TimerFire(i)
  \/ \E i \in Inst : Feed_PollTick(i)
  \/ \E i \in Inst, n \in 0..1 : Feed_SyncOk(i, n)
  \/ \E i \in Inst : Feed_SyncFail(i)

SpecPanel == InitPanel /\ [][NextPanel]_vars

\* ======================================================= claims, SpecSSE

\* C1: after disconnect() the object starts no further connection attempt
\* (no fetch, no sseConnect) until connect() is called again; a reconnect
\* timer that was pending is cancelled and never fires.
C1_NoAttemptAfterDisconnect == \A i \in Inst : ~obs[i].lateAttempt

\* C2: after the caller's disconnect() (and no later connect()) the onError
\* callback of the object is never invoked.
C2_NoErrorAfterDisconnect == \A i \in Inst : ~obs[i].lateErr

\* C4: when disconnect() is called while a connection attempt is in flight,
\* the completion of that attempt leaves the object not connected, with no
\* listener registered and no batch delivered to onData.
C4_StaleAttemptDiscarded ==
  \A i \in Inst :
    obs[i].staleConn = "done" =>
      /\ ~sse[i].connected
      /\ sse[i].cleanupFns = 0
      /\ ~obs[i].lateData

\* C6: counting from a counter of 0, onError is invoked exactly once, at the
\* failure that follows 5 failed reconnect attempts (the 6th consecutive
\* failure), and no 6th reconnect is ever scheduled: nothing is pending or in
\* flight after the terminal error.
C6_ExhaustionOnce ==
  \A i \in Inst :
    /\ sse[i].nError <= 1
    /\ sse[i].nError = 1 => obs[i].errAt = maxReconnectAttempts + 1
    /\ sse[i].pc = "timer" => obs[i].timerN <= maxReconnectAttempts
    /\ obs[i].fails <= maxReconnectAttempts + 1
    /\ obs[i].fails = maxReconnectAttempts + 1 =>
         sse[i].nError = 1 /\ sse[i].pc = "idle"

C6_Witness ==
  \E i \in Inst :
    /\ sse[i].nError = 1 /\ obs[i].fails = maxReconnectAttempts + 1
    /\ ~obs[i].disc /\ obs[i].opens = 0

\* C7: the delay given to the timer of reconnect attempt n (the n-th
\* consecutive failure) is 1000, 2000, 4000, 8000, 16000 ms for n = 1..5.
C7_BackoffDelays ==
  \A i \in Inst :
    sse[i].pc = "timer" /\ obs[i].timerN > 0 =>
      /\ obs[i].timerN \in 1..5
      /\ sse[i].delay = CASE obs[i].timerN = 1 -> 1000
                          [] obs[i].timerN = 2 -> 2000
                          [] obs[i].timerN = 3 -> 4000
                          [] obs[i].timerN = 4 -> 8000
                          [] obs[i].timerN = 5 -> 16000

C7_Witness ==
  \E i \in Inst :
    sse[i].pc = "timer" /\ obs[i].timerN = 5 /\ sse[i].delay = 16000

\* C8 (as a property of states): once an opened stream has ended or failed
\* with no disconnect(), a new connection attempt is on its way: the
\* reconnect timer is pending, or the renderer is still awaiting the answer
\* of the connection attempt and will then learn of the end.
C8_ReconnectAfterStreamEnd ==
  \A i \in Inst : obs[i].owed => sse[i].pc \in {"timer", "connecting"}

\* C9: whenever the stream is open, reconnectAttempts is 0, and the first
\* failure after an open schedules attempt 1 with the base delay.
C9_OpenResetsCounter ==
  \A i \in Inst :
    /\ sse[i].pc = "open" => sse[i].reconnectAttempts = 0
    /\ sse[i].pc = "timer" /\ obs[i].timerN = 1 =>
         sse[i].reconnectAttempts = 1 /\ sse[i].delay = reconnectDelay

C9_Witness ==
  \E i \in Inst :
    obs[i].opens = 2 /\ sse[i].pc = "timer" /\ obs[i].timerN = 1

\* ===================================================== claims, SpecPanel

\* C3: the outcome of a syncFn call that was in flight when stop() was
\* called is discarded: neither onData nor onError is invoked for it.
C3_StoppedPollDiscarded ==
  \A i \in Inst : ~pollObs[i].lateData /\ ~pollObs[i].lateErr

\* C5: once a new feed has been started for a subscription, the transport
\* started before it for that subscription delivers no batch and opens no
\* connection.
C5_OneFeedPerSubscription == \A i \in Inst : ~lateAct[i]

\* C10 (SpecSSE): the step in which an SSESubscription started for subscription S
\* reports exhaustion through onError leaves S.isStreaming false, if S is
\* in the subscription map.
C10_ExhaustionClearsStreaming ==
  [][\A i \in Inst :
       sse'[i].nError # sse[i].nError /\ sse[i].sub \in DOMAIN subscriptions'
         => ~subscriptions'[sse[i].sub].isStreaming]_vars

C10_Witness ==
  \E i \in Inst :
    /\ sse[i].nError = 1 /\ sse[i].reconnectAttempts = maxReconnectAttempts
    /\ sse[i].sub \in DOMAIN subscriptions
    /\ ~subscriptions[sse[i].sub].isStreaming

\* C11 (SpecSSE): a stream message that is not valid JSON, or is not an
\* array, is dropped.  While the stream on which it arrived stays open the
\* object is connected with reconnectAttempts 0 and listens (so later
\* well-formed messages are delivered), no onData was invoked for it, and
\* the step that processes it leaves the object (connected,
\* reconnectAttempts, no reconnect scheduled, no onError) and the
\* subscription's isStreaming flag as they were.
C11_MalformedDropped ==
  [][\A i \in Inst :
       /\ obs'[i].bad =>
            /\ Heard(i)' /\ sse'[i].connected
            /\ sse'[i].reconnectAttempts = 0
            /\ ~obs'[i].badData
       /\ obs'[i].bad /\ ~obs[i].bad =>
            sse'[i] = sse[i] /\ subscriptions' = subscriptions]_vars

C11_Witness == \E i \in Inst : obs[i].bad /\ obs[i].badThenData

C17_FeedsIndependent ==
  [][\A i \in Inst, B \in SubIds :
       /\ i <= nInst /\ B # SubOf(i)
       /\ subscriptions'[B].isStreaming # subscriptions[B].isStreaming
       => /\ sse'[i] = sse[i] /\ poll'[i] = poll[i]
          /\ subscriptions'[SubOf(i)].isStreaming
               = subscriptions[SubOf(i)].isStreaming]_vars

\* ======================================================= claims, SpecApp

\* C15: a stop() that directly follows a stop() on the same
\* PollingSubscription, and a disconnect() that directly follows a
\* disconnect() on the same SSESubscription, leave the object as the first
\* call left it: no field changes, no exception is thrown, onData and
\* onError are not invoked.
C15_StopTwice ==
  [][\A i \in Inst :
       /\ obs'[i].twice => sse'[i] = sse[i] /\ ~sse'[i].thrown
       /\ pollObs'[i].twice => poll'[i] = poll[i] /\ ~poll'[i].thrown]_vars

C15_Witness ==
  \E i, j \in Inst :
    /\ sse[i].made /\ obs[i].twice
    /\ poll[j].made /\ pollObs[j].twice

\* C18: once the delete of subscription S has completed on the server and in
\* the store, S is not in the subscription map and no transport created for
\* S is active: no armed poll timer, no open or reconnecting push stream.
C18_DeleteStopsFeed ==
  \A i \in Inst :
    i <= nInst /\ server[SubOf(i)] = "deleted" =>
      /\ SubOf(i) \notin DOMAIN subscriptions
      /\ ~isRunning(poll[i]) /\ poll[i].timers = 0
      /\ sse[i].pc = "idle" /\ ~sse[i].connected

\* C19: after disconnect-from-server all feeds are stopped, the local
\* subscription map is empty and no subscription the session created is
\* left alive on the server.
C19_DisconnectDestroysAll ==
  ~isConnected /\ (\A el \in Elements : pendingSubscribe[el].phase = "none") =>
    /\ DOMAIN subscriptions = {}
    /\ \A i \in Inst : ~isRunning(poll[i]) /\ ~sse[i].connected
    /\ \A s \in SubIds : server[s] # "live"

\* ===================================================== claims, SpecStore

\* C20: a failed catalog call during Subscribe leaves no partial local
\* state.  The step in which createSubscription fails changes neither the
\* subscription map nor the active subscription; the step in which
\* registerMonitoredItems fails adds the element to no monitored set, and a
\* subscription this run of Subscribe had added is not left in the map.
C20_SubscribeAllOrNothing ==
  [][\A el \in Elements :
       /\ pendingSubscribe[el].phase = "create"
          /\ pendingSubscribe'[el].phase = "none"
          => /\ subscriptions' = subscriptions
             /\ activeSubscriptionId' = activeSubscriptionId
       /\ pendingSubscribe[el].phase = "register"
          /\ pendingSubscribe'[el].phase = "none"
          /\ subscriptions' = subscriptions
          => (pendingSubscribe[el].created =>
                pendingSubscribe[el].sid \notin DOMAIN subscriptions')]_vars

\* ====================================================== claims, SpecPoll

\* C12: when a syncFn call of a running PollingSubscription rejects, onError
\* is invoked and the interval timer stays armed: isRunning() remains true
\* (after any number of consecutive failures, as long as stop() is not
\* called) and the timer keeps issuing polls.
C12_PollFailureKeepsTimer ==
  [][\A i \in Inst :
       /\ pollObs'[i].last = "fail" =>
            /\ pollObs'[i].lastErr
            /\ isRunning(poll[i]) =>
                 isRunning(poll'[i]) /\ poll'[i].timers = poll[i].timers
       /\ pollObs'[i].nFail > 0 /\ ~pollObs'[i].stopped =>
            isRunning(poll'[i]) /\ poll'[i].timers = 1]_vars

C12_Witness ==
  \E i \in Inst :
    /\ pollObs[i].nFail = MaxFails /\ pollObs[i].last = "tick"
    /\ isRunning(poll[i]) /\ poll[i].inflight > 0

\* C13: after stop(), until start() is called, isRunning() is false, no
\* interval timer is armed and syncFn is not called.
C13_StopEndsPolling ==
  \A i \in Inst :
    pollObs[i].stopped =>
      ~isRunning(poll[i]) /\ poll[i].timers = 0 /\ ~pollObs[i].lateCall

C13_Witness ==
  \E i \in Inst :
    /\ pollObs[i].stopped /\ pollObs[i].last = "ok"
    /\ poll[i].made /\ poll[i].inflight = 0

\* C14: start() calls syncFn exactly once in the same step and leaves
\* exactly one interval timer armed, also when the instance was already
\* running; every tick of the timer calls syncFn exactly once.
C14_StartPollsOnce ==
  [][\A i \in Inst :
       /\ pollObs'[i].last = "start" =>
            /\ poll'[i].inflight = poll[i].inflight + 1
            /\ isRunning(poll'[i]) /\ poll'[i].timers = 1
       /\ pollObs'[i].last = "tick" =>
            /\ poll'[i].inflight = poll[i].inflight + 1
            /\ poll'[i].timers = poll[i].timers]_vars

C14_Witness ==
  \E i \in Inst :
    /\ pollObs[i].last = "start" /\ pollObs[i].restarted
    /\ poll[i].timers = 1 /\ poll[i].inflight = 2

\* --- SpecValues: the Live Value Store under the batches the transports
\* deliver (a payload array arriving as a stream message or as a sync
\* response), removeMonitoredItem, and the toolbar's Disconnect (clearAll).
\* The life cycle of the transports is the subject of SpecSSE, SpecPoll and
\* SpecPanel; here they stay as they are.

Val_Frame ==
  UNCHANGED <<electron, connVars, panelVars, appVars, sse, poll, obs, pollObs, lateAct>>

Val_Push(payload) ==
  /\ dataObs.n < MaxBatches
  /\ PushBatch(payload)
  /\ UNCHANGED subscriptions
  /\ Val_Frame

Val_Poll(payload) ==
  /\ dataObs.n < MaxBatches
  /\ PollBatch(payload)
  /\ UNCHANGED subscriptions
  /\ Val_Frame

Val_Remove(sid, el) == RemoveItem(sid, el) /\ Val_Frame

Val_Reset == ToolbarDisconnect /\ SawReset /\ Unobserved

NextValues ==
  \/ \E payload \in Payloads : Val_Push(payload)
  \/ \E payload \in Payloads : Val_Poll(payload)
  \/ \E sid \in SubIds, el \in Elements : Val_Remove(sid, el)
  \/ Val_Reset

SpecValues == InitPanel /\ [][NextValues]_vars

\* --- SpecTrend: one element after another receives numeric updates, the
\* k-th update of an element carrying the number k, mixed with updates whose
\* value is a string parseFloat rejects.

OneItem(el, value) ==
  << <<[elementId |-> el, missing |-> FALSE,
        data |-> <<Flat(value, "Good", "t1")>>]>> >>

Trend_Number(el) ==
  /\ dataObs.arrivals[el] < MaxUpdates
  /\ setStore(deliver(Store,
                      messageItems(OneItem(el, Num(dataObs.arrivals[el] + 1)))))
  /\ dataObs' = [dataObs EXCEPT !.arrivals[el] = @ + 1]
  /\ UNCHANGED subscriptions
  /\ Val_Frame

Trend_Text(el) ==
  /\ setStore(deliver(Store, sync(OneItem(el, Text))))
  /\ UNCHANGED <<dataObs, subscriptions>>
  /\ Val_Frame

NextTrend ==
  \/ \E el \in Elements : Trend_Number(el)
  \/ \E el \in Elements : Trend_Text(el)

SpecTrend == InitPanel /\ [][NextTrend]_vars

\* --- SpecConnect: the application from its start, disconnected and with
\* an empty store: Connect, Disconnect, the panel mounted while
\* disconnected, Subscribe from the detail views, selection and Delete.

InitConnect ==
  /\ electron \in BOOLEAN
  /\ subscriptions = EmptyMap
  /\ activeSubscriptionId = NoSub
  /\ isConnected = FALSE
  /\ clientInstance = FALSE
  /\ pendingConnect = "idle"
  /\ server = [s \in SubIds |-> "none"]
  /\ pendingSubscribe = [el \in Elements |-> NoSubscribe]
  /\ pendingDelete = NoDelete
  /\ liveValues = EmptyData.liveValues
  /\ trendData = EmptyData.trendData
  /\ usePolling = FALSE
  /\ sseRef = 0 /\ pollingRef = 0 /\ nInst = 0
  /\ sse = [i \in Inst |-> NoSSE]
  /\ poll = [i \in Inst |-> NoPoll]
  /\ InitObservers

Conn_Frame == Unobserved /\ UNCHANGED dataObs

Conn_ConnectBegin == ConnectBegin /\ Conn_Frame

Conn_TestOk == TestOk /\ Conn_Frame

Conn_TestFail == TestFail /\ Conn_Frame

Conn_LoadOk == LoadOk /\ Conn_Frame

Conn_LoadFail == LoadFail /\ Conn_Frame

\* A detail view offers Subscribe once the explorer has been loaded.
Conn_SubscribeBegin(el) ==
  pendingConnect = "idle" /\ SubscribeBegin(el) /\ Conn_Frame

Conn_Disconnect ==
  dataObs.resets < MaxResets /\ ToolbarDisconnect /\ SawReset /\ Unobserved

Conn_Effect ==
  dataObs.resets < MaxResets /\ DisconnectedEffect /\ SawReset /\ Unobserved

NextConnect ==
  \/ Conn_ConnectBegin
  \/ Conn_TestOk
  \/ Conn_TestFail
  \/ Conn_LoadOk
  \/ Conn_LoadFail
  \/ Conn_Disconnect
  \/ Conn_Effect
  \/ \E el \in Elements : Conn_SubscribeBegin(el)
  \/ \E el \in Elements, sid \in SubIds : Store_CreateOk(el, sid)
  \/ \E el \in Elements : Store_CreateFail(el)
  \/ \E el \in Elements : Store_RegisterOk(el)
  \/ \E el \in Elements : Store_RegisterFail(el)
  \/ \E sid \in SubIds : Store_Select(sid)
  \/ \E sid \in SubIds : Store_DeleteBegin(sid)
  \/ Store_DeleteOk
  \/ Store_DeleteFail

SpecConnect == InitConnect /\ [][NextConnect]_vars

\* --- SpecFrame: the body of one push stream, delivered by the reader in
\* chunks of any sizes.

NextFrame ==
  \/ \E text \in StreamTexts : BodyOpen(text)
  \/ \E n \in 1..Len(framing.text) : BodyChunk(n)
  \/ BodyDone

SpecFrame == InitPanel /\ [][NextFrame]_vars

\* --- C30.  In every reachable state no subscription's monitoredItems holds
\* an identity twice; a step changes a list only by appending one identity
\* that was not in it (so identities stay in the order of their first
\* registration); and when registerMonitoredItems resolves for an identity
\* the list already holds, the subscription map is unchanged.
NoDuplicates(items) ==
  \A j, k \in 1..Len(items) : items[j] = items[k] => j = k

C30_MonitoredItemsUnique ==
  /\ [](\A sid \in DOMAIN subscriptions :
          NoDuplicates(subscriptions[sid].monitoredItems))
  /\ [][/\ \A sid \in DOMAIN subscriptions \cap DOMAIN subscriptions' :
            \/ subscriptions'[sid].monitoredItems =
                 subscriptions[sid].monitoredItems
            \/ \E el \in Elements :
                 /\ ~includes(subscriptions[sid].monitoredItems, el)
                 /\ subscriptions'[sid].monitoredItems =
                      Append(subscriptions[sid].monitoredItems, el)
        /\ \A el \in Elements :
            (/\ pendingSubscribe[el].phase = "register"
             /\ pendingSubscribe'[el].phase = "none"
             /\ pendingSubscribe[el].sid \in DOMAIN subscriptions
             /\ includes(subscriptions[pendingSubscribe[el].sid].monitoredItems,
                         el))
            => subscriptions' = subscriptions]_vars

\* Both elements were registered in one subscription, e2 first, and the
\* detail view of e2 has no Subscribe pending.
C30_Witness ==
  \E sid \in DOMAIN subscriptions :
    /\ subscriptions[sid].monitoredItems = <<"e2", "e1">>
    /\ pendingSubscribe["e2"].phase = "none"

\* --- C23.  In every reachable state the trend buffer of each element holds
\* at most MAX_TREND_POINTS (60) points, and they are the most recent numeric
\* updates of the element in arrival order: after a updates the buffer holds
\* updates a - 59 .. a (1 .. a while a <= 60), so the 61st update evicts
\* exactly the first and leaves updates 2..61.
C23_TrendKeepsLast60 ==
  \A el \in Elements :
    /\ Len(trendData[el]) <= 60
    /\ Len(trendData[el]) = Min(dataObs.arrivals[el], 60)
    /\ \A j \in 1..Len(trendData[el]) :
         trendData[el][j] = dataObs.arrivals[el] - Len(trendData[el]) + j

C23_Witness ==
  /\ dataObs.arrivals["e1"] = 61
  /\ trendData["e1"] = [j \in 1..60 |-> j + 1]

\* --- C21.  Right after removeMonitoredItem(sub, e) on a subscription that
\* exists, liveValues has no entry for e and sub.monitoredItems does not
\* hold e.
C21_RemoveDropsLiveValue ==
  (dataObs.mode = "remove" /\ dataObs.hadSub)
    => /\ ~liveValues[dataObs.el].present
       /\ dataObs.sub \in DOMAIN subscriptions
       /\ ~includes(subscriptions[dataObs.sub].monitoredItems, dataObs.el)

\* e1, monitored by the subscription and holding a Live Value, was removed.
C21_Witness ==
  /\ dataObs.mode = "remove" /\ dataObs.hadSub /\ dataObs.el = "e1"
  /\ dataObs.before.liveValues["e1"].present
  /\ subscriptions[dataObs.sub].monitoredItems = <<>>

\* --- C22.  Right after removeMonitoredItem(sub, e) on a subscription that
\* exists, trendData holds no points for e.
C22_RemoveDropsTrend ==
  (dataObs.mode = "remove" /\ dataObs.hadSub) => trendData[dataObs.el] = <<>>

\* The element keys of a payload array in the order the loops visit them,
\* and those of them that have a first data entry.
RECURSIVE Keys(_)
Keys(payload) ==
  IF payload = <<>> THEN <<>> ELSE Head(payload) \o Keys(Tail(payload))

Forwarded(payload) ==
  SelectSeq(Keys(payload), LAMBDA pr : ~pr.missing /\ pr.data # <<>>)

Delivered == dataObs.mode \in {"push", "poll"}

\* --- C24.  In either sub-mode the normalizer is defined on every entry it
\* is given: the item made from an entry whose value is an object with a
\* nested Data object carries exactly Data.Value, Data.Quality and
\* Data.Timestamp; the item made from any other entry carries the entry's
\* value, quality and timestamp unchanged, so an entry with neither shape
\* gives the value undefined (an absent quality or timestamp reaches the
\* consumer as null).
C24_NormalizerTotal ==
  Delivered =>
    /\ Len(dataObs.items) = Len(Forwarded(dataObs.payload))
    /\ \A k \in 1..Len(dataObs.items) :
         LET r == Forwarded(dataObs.payload)[k].data[1]
             it == dataObs.items[k]
         IN  IF r.value.kind = "object" /\ r.hasData
             THEN /\ it.value = r.Value
                  /\ it.quality = orNull(r.Quality)
                  /\ it.timestamp = orNull(r.Timestamp)
             ELSE /\ it.value = r.value
                  /\ it.quality = orNull(r.quality)
                  /\ it.timestamp = orNull(r.timestamp)

\* A stream message carried a flat entry and a nested one; both were
\* normalized and applied.
C24_Witness ==
  /\ dataObs.mode = "push" /\ Len(dataObs.items) = 2
  /\ ~Forwarded(dataObs.payload)[1].data[1].hasData
  /\ Forwarded(dataObs.payload)[2].data[1].hasData
  /\ dataObs.items[2].value = Num(2)
  /\ dataObs.items[2].elementId = "e2"
  /\ liveValues["e2"].value = Num(2)

\* --- C25.  For every payload array delivered so far, the batch the
\* sub-mode in use handed to onData equals, item by item and in order, the
\* batch the other sub-mode computes from the same array, and the store
\* equals the store the other sub-mode would have left.
C25_PushPollEquivalent ==
  /\ dataObs.items = dataObs.other
  /\ Store = dataObs.shadow

\* Two batches were delivered, the second by polling, with a nested entry.
C25_Witness ==
  /\ dataObs.mode = "poll" /\ dataObs.n = 2
  /\ \E k \in 1..Len(dataObs.items) :
       Forwarded(dataObs.payload)[k].data[1].hasData
  /\ dataObs.before # EmptyData /\ Store # dataObs.before

\* --- C29.  The batch made from a payload array holds one item per element
\* key that has a non-empty data list, in key order, made from the first
\* entry of that list; further entries and keys with an empty or missing
\* data list contribute nothing.
C29_FirstEntryOnly ==
  Delivered =>
    /\ Len(dataObs.items) = Len(Forwarded(dataObs.payload))
    /\ \A k \in 1..Len(dataObs.items) :
         /\ dataObs.items[k].elementId =
              Forwarded(dataObs.payload)[k].elementId
         /\ dataObs.items[k].value \in
              {Forwarded(dataObs.payload)[k].data[1].value,
               Forwarded(dataObs.payload)[k].data[1].Value}

\* A sync response had one entry with two keys: e1 with two data entries,
\* e2 with an empty or missing data list; one item, from e1's first entry,
\* was applied.
C29_Witness ==
  /\ dataObs.mode = "poll" /\ Len(dataObs.payload) = 1
  /\ Len(dataObs.payload[1]) = 2
  /\ Len(dataObs.payload[1][1].data) = 2
  /\ dataObs.payload[1][2].data = <<>>
  /\ Len(dataObs.items) = 1
  /\ liveValues["e1"].value = Num(1)
  /\ Len(trendData["e1"]) = Len(dataObs.before.trendData["e1"]) + 1
  /\ ~liveValues["e2"].present

\* --- C26.  Every element that received an update and was not dropped or
\* reset since holds the value, quality and timestamp of the last update
\* applied for it; a delivered batch leaves the Live Value and the trend
\* buffer of every element it carries no update for as they were.
C26_LiveValueIsLastUpdate ==
  /\ \A el \in Elements :
       dataObs.applied[el] # NoItem
         => liveValues[el] =
              [present |-> TRUE, value |-> dataObs.applied[el].value,
               quality |-> dataObs.applied[el].quality,
               timestamp |-> dataObs.applied[el].timestamp]
  /\ Delivered =>
       \A el \in Elements :
         (\A k \in 1..Len(dataObs.items) : dataObs.items[k].elementId # el)
           => /\ liveValues[el] = dataObs.before.liveValues[el]
              /\ trendData[el] = dataObs.before.trendData[el]

\* Both elements held a Live Value; a second batch overwrote e1's with
\* another one and carried nothing for e2.
C26_Witness ==
  /\ Delivered /\ dataObs.n = 2
  /\ dataObs.before.liveValues["e1"].present
  /\ liveValues["e1"] # dataObs.before.liveValues["e1"]
  /\ \A k \in 1..Len(dataObs.items) : dataObs.items[k].elementId = "e1"
  /\ liveValues["e2"].present
  /\ liveValues["e2"] = dataObs.before.liveValues["e2"]

\* --- C27.  A delivered batch whose values are all neither numbers nor
\* strings parseFloat accepts leaves every trend buffer as it was, and the
\* Live Value of the element of its last item holds that item's value.
NonNumeric(v) == v.kind \notin {"number", "numstr"}

C27_NonNumericKeepsTrend ==
  (/\ Delivered /\ dataObs.items # <<>>
   /\ \A k \in 1..Len(dataObs.items) : NonNumeric(dataObs.items[k].value))
    => /\ trendData = dataObs.before.trendData
       /\ LET it == dataObs.items[Len(dataObs.items)]
          IN  /\ liveValues[it.elementId].present
              /\ liveValues[it.elementId].value = it.value

\* e1 had a point in its trend buffer and then received a text value.
C27_Witness ==
  /\ Delivered /\ Len(dataObs.items) = 1
  /\ dataObs.items[1].elementId = "e1" /\ dataObs.items[1].value = Text
  /\ Len(dataObs.before.trendData["e1"]) = 1
  /\ trendData["e1"] = dataObs.before.trendData["e1"]
  /\ liveValues["e1"].value = Text

\* --- C28.  A delivered batch is applied to the store the previous step
\* left, as one step, item by item in list order: each element's trend
\* buffer is the earlier buffer followed by the numeric values of the
\* batch's items for that element in list order, and its Live Value is that
\* of the last item of the batch for it.
NumbersFor(el, items) ==
  LET sel == SelectSeq(items,
               LAMBDA it : it.elementId = el /\ ~NonNumeric(it.value))
  IN  [k \in 1..Len(sel) |-> sel[k].value.n]

C28_BatchInListOrder ==
  Delivered =>
    \A el \in Elements :
      /\ trendData[el] =
           dataObs.before.trendData[el] \o NumbersFor(el, dataObs.items)
      /\ \A k \in 1..Len(dataObs.items) :
           (/\ dataObs.items[k].elementId = el
            /\ \A j \in (k + 1)..Len(dataObs.items) :
                 dataObs.items[j].elementId # el)
             => liveValues[el].value = dataObs.items[k].value

\* One batch carried the numbers 1 and then 2 for e1.
C28_Witness ==
  /\ Delivered /\ Len(dataObs.items) = 2
  /\ dataObs.items[1].elementId = "e1" /\ dataObs.items[2].elementId = "e1"
  /\ dataObs.items[1].value = Num(1) /\ dataObs.items[2].value = NumStr(2)
  /\ trendData["e1"] = dataObs.before.trendData["e1"] \o <<1, 2>>
  /\ liveValues["e1"].value = NumStr(2)

\* --- C40.  In every reachable state of an SSESubscription
\* 0 <= reconnectAttempts <= maxReconnectAttempts; a step that changes the
\* counter either adds exactly 1 and leaves a reconnect timer pending, or
\* sets it to 0 and is a successful open or a disconnect() call.
C40_ReconnectCounter ==
  /\ [](\A i \in Inst :
          /\ sse[i].reconnectAttempts >= 0
          /\ sse[i].reconnectAttempts <= maxReconnectAttempts)
  /\ [][\A i \in Inst :
          sse'[i].reconnectAttempts # sse[i].reconnectAttempts
            => \/ /\ sse'[i].reconnectAttempts = sse[i].reconnectAttempts + 1
                  /\ sse'[i].pc = "timer"
               \/ /\ sse'[i].reconnectAttempts = 0
                  /\ \/ sse[i].pc = "connecting" /\ sse'[i].pc = "open"
                     \/ sse'[i] = disconnect(sse[i])]_vars

\* The stream was opened (the counter reset), ended, and five reconnects
\* have been scheduled since.
C40_Witness ==
  /\ obs[1].opens >= 1 /\ ~obs[1].disc
  /\ sse[1].reconnectAttempts = maxReconnectAttempts
  /\ sse[1].pc = "timer"

\* --- C32.  Once disconnect() has sent sse-disconnect for a stream opened
\* through the IPC bridge, the main process is no longer reading that
\* stream and has sent no sse-data, sse-end or sse-error for it since.
C32_IPCStreamReleased ==
  \A i \in Inst :
    obs[i].released => (sse[i].stream # "live" /\ ~obs[i].lateSend)

C34_DisconnectedStoreEmpty ==
  ~isConnected => DOMAIN subscriptions = {}

\* --- C37.  Whenever isConnected is true the client singleton exists.
C37_ConnectedHasClient ==
  isConnected => clientInstance

\* --- C39.  activeSubscriptionId is null or the id of a subscription in
\* the subscription map.
C39_ActiveIsListed ==
  activeSubscriptionId = NoSub \/ activeSubscriptionId \in DOMAIN subscriptions

\* The selected one of two listed subscriptions was deleted; the other is
\* still listed and none is selected.
C39_Witness ==
  /\ activeSubscriptionId = NoSub
  /\ \E sid \in SubIds : server[sid] = "deleted"
  /\ \E sid \in DOMAIN subscriptions : server[sid] = "live"
  /\ isConnected

\* --- C35.  A PollingSubscription never has more than one syncFn call
\* outstanding.
C35_OnePollOutstanding ==
  \A i \in Inst : poll[i].inflight <= 1

\* --- C36.  Every element that has a Live Value is in the monitoredItems
\* of some subscription in the subscription map.
C36_LiveValuesMonitored ==
  \A el \in Elements :
    liveValues[el].present
      => \E sid \in DOMAIN subscriptions :
           includes(subscriptions[sid].monitoredItems, el)

\* --- C33.  A subscription's isStreaming flag is true exactly when a
\* transport created for that subscription is active: a push stream that is
\* connecting, open or waiting to reconnect, or a poller with a timer armed.
TransportActive(sid) ==
  \E i \in Inst :
    \/ /\ sse[i].made /\ sse[i].sub = sid
       /\ sse[i].pc \in {"connecting", "open", "timer"}
    \/ /\ poll[i].made /\ poll[i].sub = sid /\ poll[i].timers > 0

C33_StreamingIffActive ==
  \A sid \in DOMAIN subscriptions :
    subscriptions[sid].isStreaming <=> TransportActive(sid)

\* --- C38.  However the body is split into chunks, the dataStr values
\* handed on after the reader has returned the first pos characters are the
\* payloads of the complete `data: ` lines among these characters, in
\* order and each once, whichever chunks a line was split over; the buffer
\* is the unterminated fragment after the last newline, of which nothing
\* has been handed on; when the body ends the fragment is dropped.
Consumed == SubSeq(framing.text, 1, framing.pos)

C38_FramingChunkIndependent ==
  /\ framing.out =
       forLines(SubSeq(split(Consumed), 1, Len(split(Consumed)) - 1))
  /\ Len(framing.out) <=
       Cardinality({k \in 1..framing.pos : framing.text[k] = NL})
  /\ ~framing.done =>
       /\ \A k \in 1..Len(framing.buffer) : framing.buffer[k] # NL
       /\ \E k \in 0..framing.pos :
            /\ k > 0 => framing.text[k] = NL
            /\ framing.buffer = SubSeq(framing.text, k + 1, framing.pos)

\* The body "data: x", newline, "data: x" with no final newline ended; the
\* last chunk began inside the first line, which was handed on once, and
\* the unterminated second line was not.
C38_Witness ==
  /\ framing.done
  /\ framing.text = DataPrefix \o <<"x", NL>> \o DataPrefix \o <<"x">>
  /\ framing.cut = 3
  /\ framing.out = << <<"x">> >>

====
